---- MODULE Spec2Model ----
(***************************************************************************)
(* Model of the repository-statistics tool: the two directory-tree         *)
(* builders (FileStructureAnalyzer.build_tree in src/src/file_structure.py *)
(* and RepoStats.get_file_structure in src/src/repo_stats.py), the way the *)
(* dashboard (src/app.py) calls them, the commit-history loop              *)
(* RepoStats.get_commit_history, the file statistics                       *)
(* RepoStats.get_file_stats, the evaluation file and its scores            *)
(* (src/src/project_eval.py, src/src/evaluation.py), the evaluation tab of *)
(* the dashboard, and read_repos_file (src/src/download_repos.py).         *)
(*                                                                         *)
(* Python strings are sequences of code points, so that regular-expression *)
(* search, sorting and equality with the signal strings are computed.      *)
(* Python values carry their type: a str is [type |-> "str", s |-> ...],    *)
(* a dict is [type |-> "dict", items |-> <<key, value>> pairs in insertion *)
(* order], None is [type |-> "NoneType"].  A call that ends with an        *)
(* exception yields [type |-> "raise", exc |-> ...].                        *)
(***************************************************************************)
EXTENDS Integers, Sequences, FiniteSets, TLC

\* fs                the directory tree on disk
\* max_depth, exclude_patterns, caller   the arguments of the last tree call
\* tree              what that call returned (or the exception it raised)
\* pc                "start" before the tree call, "done" after it
\* iter_commits      what self.repo.iter_commits() yields, in order
\* start_date, end_date   the arguments of get_commit_history
\* idx               position of the for loop in iter_commits
\* commits           the list get_commit_history builds
\* cpc               "new" (before RepoStats(repo_path)), "failed" (it raised),
\*                   "start", "loop" (inside the for loop), "done" (returned)
\* repo_path         what the file system holds at the path given to RepoStats
\* repo_stats        the RepoStats object, or the exception __init__ raised
\* raw_json          json.dumps(tree, indent=2), None before it is made
\* tree_view         the list of lines format_tree made of tree, None before
\* copy_view         the lines made of json.loads(raw_json), None before
\* evaluation_file   what the path of evaluation.json holds
\* loaded            what the last load_evaluation returned, None before
\* saved             what the last save_evaluation returned, None before
\* saved_eval        the evaluation given to that save_evaluation, None before
\* scores            what the last calculate_scores returned, None before
\* scored            the evaluation given to that calculate_scores, None before
\* content           what each file of fs holds: its bytes, or the exception
\*                   that open() raises
\* file_stats        what the last get_file_stats returned, None before
\* repos_file        the lines of the file given to read_repos_file, None if
\*                   there is no such file
\* repos             what read_repos_file returned, None before
\* show_eval_form    st.session_state.show_eval_form, None while it is unset
\* status            what the last run of the evaluation tab showed about the
\*                   file: "info" (no file found), "warning" (invalid),
\*                   "success" (valid); "none" before the first run
\* form_shown        whether that run rendered the evaluation form
\* event             what started that run: "open", "edit" (the Edit button),
\*                   "submit" (the form's button), "rerun" (st.rerun())
\* run_pc            "rerun" when the run ended in st.rerun(), else "idle"
VARIABLES fs, max_depth, exclude_patterns, caller, tree, pc,
          iter_commits, start_date, end_date, idx, commits, cpc,
          repo_path, repo_stats, raw_json, tree_view, copy_view,
          evaluation_file, loaded, saved, saved_eval, scores, scored,
          content, file_stats, repos_file, repos,
          show_eval_form, status, form_shown, event, run_pc

vars == <<fs, max_depth, exclude_patterns, caller, tree, pc,
          iter_commits, start_date, end_date, idx, commits, cpc,
          repo_path, repo_stats, raw_json, tree_view, copy_view,
          evaluation_file, loaded, saved, saved_eval, scores, scored,
          content, file_stats, repos_file, repos,
          show_eval_form, status, form_shown, event, run_pc>>

evalVars ==
  <<evaluation_file, loaded, saved, saved_eval, scores, scored>>

statsVars == <<content, file_stats>>

reposVars == <<repos_file, repos>>

appVars == <<show_eval_form, status, form_shown, event, run_pc>>

treeVars ==
  <<fs, max_depth, exclude_patterns, caller, tree, pc, raw_json, tree_view,
    copy_view>>

commitVars ==
  <<iter_commits, start_date, end_date, idx, commits, cpc, repo_path,
    repo_stats>>

(***************************************************************************)
(* Bounds of the model.                                                    *)
(***************************************************************************)
\* number of files and directories below the root of a generated file system
MaxNodes == 2

\* largest max_depth argument tried
MaxDepthOpt == 2

\* longest commit log
MaxCommits == 5

\* commit timestamps and window bounds range over 0..MaxTime
MaxTime == 2

(***************************************************************************)
(* Strings.                                                                *)
(***************************************************************************)
\* "..."
END_SIGNAL == <<46, 46, 46>>

\* ""
\* an exclusion signal equal to the truncation marker
EXCLUDE_SIGNAL_dots == <<46, 46, 46>>

EXCLUDE_SIGNAL == <<>>

\* "Permission denied"
PERMISSION_DENIED ==
  <<80, 101, 114, 109, 105, 115, 115, 105, 111, 110, 32,
    100, 101, 110, 105, 101, 100>>

\* "/"
SEP == <<47>>

\* names of files and directories: "a.py", "sub", "...", "b.txt", "c.md"
N_a_py == <<97, 46, 112, 121>>

N_sub == <<115, 117, 98>>

N_dots == <<46, 46, 46>>

N_b_txt == <<98, 46, 116, 120, 116>>

N_c_md == <<99, 46, 109, 100>>

\* "B.txt"
N_B_txt == <<66, 46, 116, 120, 116>>

\* a name of four characters: a, a double quote, a backslash, e acute
N_quote == <<97, 34, 92, 233>>

\* the names the generated file systems use
Names == {N_a_py, N_sub, N_dots}

\* str(path) of the analysed directory: "/r"; its name is "r"
RootStr == <<47, 114>>

RootName == <<114>>

PyStr(s) == [type |-> "str", s |-> s]

PyNone == [type |-> "NoneType"]

PyDict(items) == [type |-> "dict", items |-> items]

Raise(e) == [type |-> "raise", exc |-> e]

\* Python ==: values of different types are never equal
PyEq(a, b) ==
  /\ a.type = b.type
  /\ \/ a.type = "NoneType"
     \/ a.type = "str" /\ a.s = b.s
     \/ a.type = "dict" /\ a.items = b.items

\* str < str: code-point order, a proper prefix is smaller
RECURSIVE LexLess(_, _)
LexLess(a, b) ==
  IF a = <<>> THEN b # <<>>
  ELSE IF b = <<>> THEN FALSE
  ELSE IF Head(a) # Head(b) THEN Head(a) < Head(b)
  ELSE LexLess(Tail(a), Tail(b))

\* sorted(key=str.lower): upper and lower case letters are not told apart
\* unless the names differ in nothing else
RECURSIVE Sorted_casefold(_)
Sorted_casefold(S) ==
  LET Lower(str) ==
        [i \in DOMAIN str |->
           IF str[i] \in 65..90 THEN str[i] + 32 ELSE str[i]]
      Less(x, y) ==
        \/ LexLess(Lower(x), Lower(y))
        \/ Lower(x) = Lower(y) /\ LexLess(x, y)
  IN IF S = {} THEN <<>>
     ELSE LET m == CHOOSE x \in S : \A y \in S \ {x} : Less(x, y)
          IN <<m>> \o Sorted_casefold(S \ {m})

\* sorted(): the names of a set in ascending order
RECURSIVE Sorted(_)
Sorted(S) ==
  IF S = {} THEN <<>>
  ELSE LET m == CHOOSE x \in S : \A y \in S \ {x} : LexLess(x, y)
       IN <<m>> \o Sorted(S \ {m})

(***************************************************************************)
(* The file system.  A path is the sequence of names below the root (the   *)
(* root is <<>>); fs maps every existing path to what is found there:      *)
(*   "file"   a regular file (is_file() is true),                          *)
(*   "dir"    a directory that can be listed,                              *)
(*   "denied" a directory whose listing raises PermissionError,            *)
(*   "other"  neither a regular file nor a directory (a dangling symbolic  *)
(*            link, a socket, a FIFO): is_file() is false and listing it   *)
(*            raises an OSError that is not a PermissionError.             *)
(***************************************************************************)
Kinds == {"file", "dir", "denied", "other"}

IsDirKind(k) == k \in {"dir", "denied"}

\* str(path)
RECURSIVE PathStr(_)
PathStr(p) ==
  IF p = <<>> THEN RootStr
  ELSE PathStr(SubSeq(p, 1, Len(p) - 1)) \o SEP \o p[Len(p)]

\* path.name
PathName(p) == IF p = <<>> THEN RootName ELSE p[Len(p)]

Parent(p) == SubSeq(p, 1, Len(p) - 1)

\* the names path.iterdir() yields
ChildNames(F, p) ==
  {n \in Names \cup {N_b_txt, N_c_md, N_B_txt, N_quote} :
     Append(p, n) \in DOMAIN F}

\* the file systems that add one node, in a directory, to one of S
AddNode(S) ==
  UNION {{f @@ (Append(p, n) :> k) :
            p \in {q \in DOMAIN f : IsDirKind(f[q])}, n \in Names, k \in Kinds}
         : f \in S}

RECURSIVE FSUpTo(_)
FSUpTo(n) ==
  IF n = 0 THEN {(<<>> :> "dir"), (<<>> :> "denied")}
  ELSE LET S == FSUpTo(n - 1) IN S \cup AddNode(S)

\* a directory with a.py, b.txt and sub/c.md
ScenarioFS ==
  (<<>> :> "dir") @@ (<<N_a_py>> :> "file") @@ (<<N_b_txt>> :> "file")
  @@ (<<N_sub>> :> "dir") @@ (<<N_sub, N_c_md>> :> "file")

\* a.py beside a directory sub that cannot be listed and holds a.py and sub
DeniedFS ==
  (<<>> :> "dir") @@ (<<N_a_py>> :> "file") @@ (<<N_sub>> :> "denied")
  @@ (<<N_sub, N_a_py>> :> "file") @@ (<<N_sub, N_sub>> :> "dir")

\* sub/sub/sub/a.py, with a file beside each directory
DeepFS ==
  (<<>> :> "dir") @@ (<<N_a_py>> :> "file") @@ (<<N_sub>> :> "dir")
  @@ (<<N_sub, N_a_py>> :> "file") @@ (<<N_sub, N_sub>> :> "dir")
  @@ (<<N_sub, N_sub, N_sub>> :> "dir")
  @@ (<<N_sub, N_sub, N_sub, N_a_py>> :> "file")

\* a.py, a directory sub that cannot be listed, and c.md/b.txt
MixedFS ==
  (<<>> :> "dir") @@ (<<N_a_py>> :> "file") @@ (<<N_sub>> :> "denied")
  @@ (<<N_c_md>> :> "dir") @@ (<<N_c_md, N_b_txt>> :> "file")

\* a.py, B.txt and sub/ with c.md and B.txt
CaseFS ==
  (<<>> :> "dir") @@ (<<N_a_py>> :> "file") @@ (<<N_B_txt>> :> "file")
  @@ (<<N_sub>> :> "dir") @@ (<<N_sub, N_c_md>> :> "file")
  @@ (<<N_sub, N_B_txt>> :> "file")

\* a file whose name json has to escape, beside sub/a.py
EscapeFS ==
  (<<>> :> "dir") @@ (<<N_quote>> :> "file") @@ (<<N_sub>> :> "dir")
  @@ (<<N_sub, N_a_py>> :> "file")

FSSet ==
  FSUpTo(MaxNodes)
  \cup {ScenarioFS, DeniedFS, DeepFS, MixedFS, CaseFS, EscapeFS}


(***************************************************************************)
(* Exclusion patterns.  A pattern is a regular expression made of a        *)
(* literal text with an optional "^" before it and "$" after it:           *)
(* [lit, atStart, atEnd].  Search is re.search: the literal occurs         *)
(* somewhere in the string, at its start and/or end when anchored.         *)
(***************************************************************************)
Pattern(lit, atStart, atEnd) == [lit |-> lit, atStart |-> atStart, atEnd |-> atEnd]

\* pattern.search(s) is not None
Search(pat, s) ==
  \E i \in 1..(Len(s) - Len(pat.lit) + 1) :
    /\ SubSeq(s, i, i + Len(pat.lit) - 1) = pat.lit
    /\ pat.atStart => i = 1
    /\ pat.atEnd => i + Len(pat.lit) - 1 = Len(s)

\* r"\.py$"
P_py == Pattern(<<46, 112, 121>>, FALSE, TRUE)

\* r"sub$"
P_sub_end == Pattern(N_sub, FALSE, TRUE)

\* r"sub"
P_sub == Pattern(N_sub, FALSE, FALSE)

\* r"^/r$"
P_root == Pattern(RootStr, TRUE, TRUE)

PatternLists ==
  {<<>>, <<P_py>>, <<P_sub_end>>, <<P_sub>>, <<P_root>>, <<P_py, P_sub_end>>}

\* max_depth: None is <<>>, the integer d is <<d>>
DepthOpts == {<<>>} \cup {<<d>> : d \in 0..MaxDepthOpt}

(***************************************************************************)
(* FileStructureAnalyzer (src/src/file_structure.py).                      *)
(***************************************************************************)
\* should_exclude returning inside the loop's first round: only the first
\* pattern is tried
should_exclude_first_only(pats, path_str) ==
  pats # <<>> /\ Search(pats[1], path_str)

should_exclude(pats, path_str) ==
  \E i \in DOMAIN pats : Search(pats[i], path_str)

\* sorted(path.iterdir()): the children, or the exception the listing raises
iterdir(F, path) ==
  CASE F[path] = "dir" -> [type |-> "list", names |-> Sorted(ChildNames(F, path))]
    [] F[path] = "denied" -> Raise("PermissionError")
    [] OTHER -> Raise("OSError")

\* build_tree without its except clause: every exception goes on
ExceptNothing(r) == r

\* try: ... except PermissionError: return "Permission denied"
ExceptPermissionError(r) ==
  IF r.exc = "PermissionError" THEN PyStr(PERMISSION_DENIED) ELSE r

\* the depth test one level late
depth_exceeded_late(md, current_depth) ==
  md # <<>> /\ current_depth > md[1] + 1

\* self.max_depth is not None and current_depth > self.max_depth
depth_exceeded(md, current_depth) == md # <<>> /\ current_depth > md[1]

RECURSIVE build_tree(_, _, _, _, _)
RECURSIVE build_tree_loop(_, _, _, _, _, _, _)
\* the for loop of build_tree over the sorted children; result is the dict so far
build_tree_loop(F, md, pats, path, current_depth, children, result) ==
  IF children = <<>> THEN PyDict(result)
  ELSE LET child == Append(path, Head(children))
           child_result == build_tree(F, md, pats, child, current_depth + 1)
       IN IF child_result.type = "raise" THEN ExceptPermissionError(child_result)
          ELSE IF ~PyEq(child_result, PyStr(EXCLUDE_SIGNAL))
          THEN build_tree_loop(F, md, pats, path, current_depth, Tail(children),
                               Append(result, <<PathName(child), child_result>>))
          ELSE build_tree_loop(F, md, pats, path, current_depth, Tail(children),
                               result)

build_tree(F, md, pats, path, current_depth) ==
  IF depth_exceeded(md, current_depth) THEN PyStr(END_SIGNAL)
  ELSE IF should_exclude(pats, PathStr(path)) THEN PyStr(EXCLUDE_SIGNAL)
  ELSE IF F[path] = "file" THEN PyStr(PathName(path))
  ELSE LET listing == iterdir(F, path)
       IN IF listing.type = "raise" THEN ExceptPermissionError(listing)
          ELSE build_tree_loop(F, md, pats, path, current_depth,
                               listing.names, <<>>)

\* {self.directory.name: self.build_tree(self.directory)}, or the exception
get_file_structure(F, md, pats) ==
  LET r == build_tree(F, md, pats, <<>>, 0)
  IN IF r.type = "raise" THEN r ELSE PyDict(<< <<RootName, r>> >>)

(***************************************************************************)
(* RepoStats.get_file_structure (src/src/repo_stats.py): the same          *)
(* traversal written a second time, with None as the exclusion signal.     *)
(***************************************************************************)
RepoStats_should_exclude(pats, path_str) ==
  \E i \in DOMAIN pats : Search(pats[i], path_str)

RECURSIVE RepoStats_build_tree(_, _, _, _, _)
RECURSIVE RepoStats_build_tree_loop(_, _, _, _, _, _, _)
RepoStats_build_tree_loop(F, md, pats, path, current_depth, children, result) ==
  IF children = <<>> THEN PyDict(result)
  ELSE LET child == Append(path, Head(children))
           child_result ==
             RepoStats_build_tree(F, md, pats, child, current_depth + 1)
       IN IF child_result.type = "raise" THEN ExceptPermissionError(child_result)
          ELSE IF child_result.type # "NoneType"
          THEN RepoStats_build_tree_loop(F, md, pats, path, current_depth,
                 Tail(children),
                 Append(result, <<PathName(child), child_result>>))
          ELSE RepoStats_build_tree_loop(F, md, pats, path, current_depth,
                 Tail(children), result)

RepoStats_build_tree(F, md, pats, path, current_depth) ==
  IF md # <<>> /\ current_depth > md[1] THEN PyStr(<<46, 46, 46>>)
  ELSE IF RepoStats_should_exclude(pats, PathStr(path)) THEN PyNone
  ELSE IF F[path] = "file" THEN PyStr(PathName(path))
  ELSE LET listing == iterdir(F, path)
       IN IF listing.type = "raise" THEN ExceptPermissionError(listing)
          ELSE RepoStats_build_tree_loop(F, md, pats, path, current_depth,
                                         listing.names, <<>>)

\* {root_path.name: build_tree(root_path)}, or the exception
RepoStats_get_file_structure(F, md, pats) ==
  LET r == RepoStats_build_tree(F, md, pats, <<>>, 0)
  IN IF r.type = "raise" THEN r ELSE PyDict(<< <<RootName, r>> >>)

\* the "Max Depth" slider of the dashboard: min_value, max_value
SliderMin == 0

SliderMax == 10

(***************************************************************************)
(* Reading a returned tree.                                                *)
(***************************************************************************)
\* the paths stored in the value v, which stands at path p
RECURSIVE PathsOf(_, _)
PathsOf(v, p) ==
  {p} \cup (IF v.type = "dict"
            THEN UNION {PathsOf(v.items[i][2], Append(p, v.items[i][1])) :
                          i \in DOMAIN v.items}
            ELSE {})

\* the value stored in v under the names of p
RECURSIVE ValueIn(_, _)
ValueIn(v, p) ==
  IF p = <<>> THEN v
  ELSE LET i == CHOOSE j \in DOMAIN v.items : v.items[j][1] = Head(p)
       IN ValueIn(v.items[i][2], Tail(p))

\* the value a returned tree t stores under the root's name
RootValue(t) == t.items[1][2]

\* the paths of the file system that a returned tree t has an entry for
TreePaths(t) == PathsOf(RootValue(t), <<>>)

ValueAt(t, p) == ValueIn(RootValue(t), p)

(***************************************************************************)
(* The outline: format_tree of src/src/utils.py and the function of the    *)
(* same name nested in FileStructureAnalyzer.get_formated_tree.  A line is *)
(* a string; the result is a list of lines.                                *)
(***************************************************************************)
PyList(items) == [type |-> "list", items |-> items]

\* "└── " and "├── "
PREFIX_LAST == <<9492, 9472, 9472, 32>>

PREFIX_MID == <<9500, 9472, 9472, 32>>

\* "    " and "│   "
INDENT_LAST == <<32, 32, 32, 32>>

INDENT_MID == <<9474, 32, 32, 32>>

\* f"{value}" of a value that is not a dict: a text as it is, None as "None"
PyFormat(value) ==
  IF value.type = "str" THEN value.s ELSE <<78, 111, 110, 101>>

\* format_tree with "│   " below every entry, the last one too
RECURSIVE format_tree_bar_always(_, _, _)
format_tree_bar_always(items, indent, i) ==
  IF i > Len(items) THEN <<>>
  ELSE LET key == items[i][1]
           value == items[i][2]
           is_last == i = Len(items)
           prefix == IF is_last THEN PREFIX_LAST ELSE PREFIX_MID
           lines ==
             IF value.type = "dict"
             THEN <<indent \o prefix \o key \o <<47>> >>
                  \o format_tree_bar_always(value.items, indent \o INDENT_MID, 1)
             ELSE IF PyEq(value, PyStr(<<46, 46, 46>>))
             THEN <<indent \o prefix \o key \o <<47, 32, 46, 46, 46>> >>
             ELSE <<indent \o prefix \o PyFormat(value)>>
       IN lines \o format_tree_bar_always(items, indent, i + 1)

\* utils.format_tree: the lines of the entries i, i + 1, ... of tree.items()
RECURSIVE format_tree(_, _, _)
format_tree(items, indent, i) ==
  IF i > Len(items) THEN <<>>
  ELSE LET key == items[i][1]
           value == items[i][2]
           is_last == i = Len(items)
           prefix == IF is_last THEN PREFIX_LAST ELSE PREFIX_MID
           lines ==
             IF value.type = "dict"
             THEN LET next_indent ==
                        indent \o (IF is_last THEN INDENT_LAST ELSE INDENT_MID)
                  IN <<indent \o prefix \o key \o <<47>> >>
                     \o format_tree(value.items, next_indent, 1)
             ELSE IF PyEq(value, PyStr(<<46, 46, 46>>))
             THEN <<indent \o prefix \o key \o <<47, 32, 46, 46, 46>> >>
             ELSE <<indent \o prefix \o PyFormat(value)>>
       IN lines \o format_tree(items, indent, i + 1)

\* the nested format_tree of get_formated_tree, which compares with END_SIGNAL
RECURSIVE FileStructureAnalyzer_format_tree(_, _, _)
FileStructureAnalyzer_format_tree(items, indent, i) ==
  IF i > Len(items) THEN <<>>
  ELSE LET key == items[i][1]
           value == items[i][2]
           is_last == i = Len(items)
           prefix == IF is_last THEN PREFIX_LAST ELSE PREFIX_MID
           lines ==
             IF value.type = "dict"
             THEN LET next_indent ==
                        indent \o (IF is_last THEN INDENT_LAST ELSE INDENT_MID)
                  IN <<indent \o prefix \o key \o <<47>> >>
                     \o FileStructureAnalyzer_format_tree(value.items,
                                                          next_indent, 1)
             ELSE IF PyEq(value, PyStr(END_SIGNAL))
             THEN <<indent \o prefix \o key \o <<47, 32, 46, 46, 46>> >>
             ELSE <<indent \o prefix \o PyFormat(value)>>
       IN lines \o FileStructureAnalyzer_format_tree(items, indent, i + 1)

(***************************************************************************)
(* json.dumps and json.loads of the standard library, on texts that are    *)
(* sequences of code points.  Numbers are the integers; true, false, null, *)
(* arrays and objects are as in JSON.                                      *)
(***************************************************************************)
PyInt(n) == [type |-> "int", n |-> n]

PyBool(b) == [type |-> "bool", b |-> b]

\* the digit, lower case, of a value below 16
HexDigit(d) == IF d < 10 THEN 48 + d ELSE 87 + d

\* "\uXXXX" for a code unit below 65536
EscapeU(u) ==
  <<92, 117, HexDigit(u \div 4096), HexDigit((u \div 256) % 16),
    HexDigit((u \div 16) % 16), HexDigit(u % 16)>>

\* every character written as it is
EscapeChar_raw(c, ensure_ascii) == <<c>>

\* the text json writes for one character of a string
EscapeChar(c, ensure_ascii) ==
  IF c = 34 THEN <<92, 34>>
  ELSE IF c = 92 THEN <<92, 92>>
  ELSE IF c = 10 THEN <<92, 110>>
  ELSE IF c = 13 THEN <<92, 114>>
  ELSE IF c = 9 THEN <<92, 116>>
  ELSE IF c = 8 THEN <<92, 98>>
  ELSE IF c = 12 THEN <<92, 102>>
  ELSE IF c < 32 THEN EscapeU(c)
  ELSE IF ~ensure_ascii \/ c < 127 THEN <<c>>
  ELSE IF c < 65536 THEN EscapeU(c)
  ELSE EscapeU(55296 + ((c - 65536) \div 1024))
       \o EscapeU(56320 + ((c - 65536) % 1024))

RECURSIVE EscapeString(_, _)
EscapeString(str, ensure_ascii) ==
  IF str = <<>> THEN <<>>
  ELSE EscapeChar(Head(str), ensure_ascii)
       \o EscapeString(Tail(str), ensure_ascii)

\* the string between quotes
encode_basestring(str, ensure_ascii) ==
  <<34>> \o EscapeString(str, ensure_ascii) \o <<34>>

\* the decimal digits of a natural number
RECURSIVE Digits(_)
Digits(n) ==
  IF n < 10 THEN <<48 + n>> ELSE Digits(n \div 10) \o <<48 + (n % 10)>>

\* int.__repr__
IntRepr(n) == IF n < 0 THEN <<45>> \o Digits(0 - n) ELSE Digits(n)

\* n spaces
RECURSIVE Spaces(_)
Spaces(n) == IF n <= 0 THEN <<>> ELSE <<32>> \o Spaces(n - 1)

\* a line feed and the indentation of a nesting level
NewlineIndent(indent, level) == <<10>> \o Spaces(indent * level)

\* json.dumps(value, indent=indent, ensure_ascii=ensure_ascii) at a nesting
\* level; the keys of the dicts are strings
RECURSIVE json_dumps_at(_, _, _, _)
RECURSIVE json_dumps_items(_, _, _, _, _, _)
json_dumps_items(items, isDict, i, indent, ensure_ascii, level) ==
  IF i > Len(items) THEN <<>>
  ELSE (IF i > 1 THEN <<44>> ELSE <<>>)
       \o NewlineIndent(indent, level)
       \o (IF isDict
           THEN encode_basestring(items[i][1], ensure_ascii) \o <<58, 32>>
                \o json_dumps_at(items[i][2], indent, ensure_ascii, level)
           ELSE json_dumps_at(items[i], indent, ensure_ascii, level))
       \o json_dumps_items(items, isDict, i + 1, indent, ensure_ascii, level)

json_dumps_at(value, indent, ensure_ascii, level) ==
  IF value.type = "str" THEN encode_basestring(value.s, ensure_ascii)
  ELSE IF value.type = "NoneType" THEN <<110, 117, 108, 108>>
  ELSE IF value.type = "bool"
  THEN (IF value.b THEN <<116, 114, 117, 101>> ELSE <<102, 97, 108, 115, 101>>)
  ELSE IF value.type = "int" THEN IntRepr(value.n)
  ELSE IF value.type = "dict"
  THEN IF value.items = <<>> THEN <<123, 125>>
       ELSE <<123>>
            \o json_dumps_items(value.items, TRUE, 1, indent, ensure_ascii,
                                level + 1)
            \o NewlineIndent(indent, level) \o <<125>>
  ELSE IF value.items = <<>> THEN <<91, 93>>
       ELSE <<91>>
            \o json_dumps_items(value.items, FALSE, 1, indent, ensure_ascii,
                                level + 1)
            \o NewlineIndent(indent, level) \o <<93>>

json_dumps(value, indent, ensure_ascii) ==
  json_dumps_at(value, indent, ensure_ascii, 0)

\* a parser's result: the value and the position after it, or a failure
Parsed(v, pos) == [ok |-> TRUE, val |-> v, pos |-> pos]

ParseFail == [ok |-> FALSE, val |-> PyNone, pos |-> 0]

PyFloat(text) == [type |-> "float", text |-> text]

\* the character at a position, -1 past the end
At(t, i) == IF i >= 1 /\ i <= Len(t) THEN t[i] ELSE -1

\* the text continues with lit at position i
StartsAt(t, i, lit) ==
  i + Len(lit) - 1 <= Len(t) /\ SubSeq(t, i, i + Len(lit) - 1) = lit

IsDigit(c) == c \in 48..57

\* the position of the first character at or after i that is no white space
RECURSIVE SkipWs(_, _)
SkipWs(t, i) == IF At(t, i) \in {32, 9, 10, 13} THEN SkipWs(t, i + 1) ELSE i

\* the position of the first character at or after i that is no digit
RECURSIVE SkipDigits(_, _)
SkipDigits(t, i) == IF IsDigit(At(t, i)) THEN SkipDigits(t, i + 1) ELSE i

\* the value of a hexadecimal digit, -1 for another character
HexVal(c) ==
  IF c \in 48..57 THEN c - 48
  ELSE IF c \in 97..102 THEN c - 87
  ELSE IF c \in 65..70 THEN c - 55
  ELSE -1

\* the four hexadecimal digits at i .. i + 3 as a number, -1 if they are not
Hex4(t, i) ==
  LET h(k) == HexVal(At(t, i + k))
  IN IF h(0) < 0 \/ h(1) < 0 \/ h(2) < 0 \/ h(3) < 0 THEN -1
     ELSE h(0) * 4096 + h(1) * 256 + h(2) * 16 + h(3)

\* the value of the decimal digits at a .. b - 1
RECURSIVE DigitsVal(_, _, _)
DigitsVal(t, a, b) ==
  IF a >= b THEN 0 ELSE DigitsVal(t, a, b - 1) * 10 + (t[b - 1] - 48)

\* json.decoder.scanstring (strict): i is the position after the opening
\* quote, acc the characters read so far
RECURSIVE scanstring(_, _, _)
scanstring(t, i, acc) ==
  LET c == At(t, i)
      e == At(t, i + 1)
  IN IF c = -1 \/ (c >= 0 /\ c < 32) THEN ParseFail
     ELSE IF c = 34 THEN Parsed(acc, i + 1)
     ELSE IF c # 92 THEN scanstring(t, i + 1, Append(acc, c))
     ELSE IF e \in {34, 92, 47} THEN scanstring(t, i + 2, Append(acc, e))
     ELSE IF e = 98 THEN scanstring(t, i + 2, Append(acc, 8))
     ELSE IF e = 102 THEN scanstring(t, i + 2, Append(acc, 12))
     ELSE IF e = 110 THEN scanstring(t, i + 2, Append(acc, 10))
     ELSE IF e = 114 THEN scanstring(t, i + 2, Append(acc, 13))
     ELSE IF e = 116 THEN scanstring(t, i + 2, Append(acc, 9))
     ELSE IF e # 117 THEN ParseFail
     ELSE LET u == Hex4(t, i + 2)
              u2 == IF StartsAt(t, i + 6, <<92, 117>>) THEN Hex4(t, i + 8)
                    ELSE -1
          IN IF u < 0 THEN ParseFail
             ELSE IF u \in 55296..56319 /\ u2 \in 56320..57343
             THEN scanstring(t, i + 12,
                             Append(acc, 65536 + (u - 55296) * 1024
                                         + (u2 - 56320)))
             ELSE scanstring(t, i + 6, Append(acc, u))

\* a number at position i: its integer part, fraction and exponent
scan_number(t, i) ==
  LET first == IF At(t, i) = 45 THEN i + 1 ELSE i
      intEnd == IF At(t, first) = 48 THEN first + 1
                ELSE IF At(t, first) \in 49..57 THEN SkipDigits(t, first)
                ELSE first
      fracEnd == IF At(t, intEnd) = 46 /\ IsDigit(At(t, intEnd + 1))
                 THEN SkipDigits(t, intEnd + 1) ELSE intEnd
      expDigits == IF At(t, fracEnd) \in {101, 69}
                   THEN IF At(t, fracEnd + 1) \in {43, 45} THEN fracEnd + 2
                        ELSE fracEnd + 1
                   ELSE 0
      expEnd == IF expDigits > 0 /\ IsDigit(At(t, expDigits))
                THEN SkipDigits(t, expDigits) ELSE fracEnd
  IN IF intEnd = first THEN ParseFail
     ELSE IF expEnd > intEnd
     THEN Parsed(PyFloat(SubSeq(t, i, expEnd - 1)), expEnd)
     ELSE Parsed(PyInt(IF first > i THEN 0 - DigitsVal(t, first, intEnd)
                       ELSE DigitsVal(t, first, intEnd)), intEnd)

\* dict[key] = value on the items of a dict
SetItem(items, key, value) ==
  IF \E j \in DOMAIN items : items[j][1] = key
  THEN LET j == CHOOSE k \in DOMAIN items : items[k][1] = key
       IN [items EXCEPT ![j] = <<key, value>>]
  ELSE Append(items, <<key, value>>)

\* the scanner: the value that starts at position i
RECURSIVE scan_once(_, _)
RECURSIVE JSONObject(_, _, _)
RECURSIVE JSONArray(_, _, _)
\* i is the position of the quote that opens the next key
JSONObject(t, i, items) ==
  LET key == scanstring(t, i + 1, <<>>)
      colon == SkipWs(t, key.pos)
      value == scan_once(t, SkipWs(t, colon + 1))
      after == SkipWs(t, value.pos)
      next == SkipWs(t, after + 1)
  IN IF At(t, i) # 34 \/ ~key.ok \/ At(t, colon) # 58 THEN ParseFail
     ELSE IF ~value.ok THEN ParseFail
     ELSE IF At(t, after) = 125
     THEN Parsed(PyDict(SetItem(items, key.val, value.val)), after + 1)
     ELSE IF At(t, after) = 44
     THEN JSONObject(t, next, SetItem(items, key.val, value.val))
     ELSE ParseFail

\* i is the position of the next element
JSONArray(t, i, items) ==
  LET value == scan_once(t, i)
      after == SkipWs(t, value.pos)
  IN IF ~value.ok THEN ParseFail
     ELSE IF At(t, after) = 93
     THEN Parsed(PyList(Append(items, value.val)), after + 1)
     ELSE IF At(t, after) = 44
     THEN JSONArray(t, SkipWs(t, after + 1), Append(items, value.val))
     ELSE ParseFail

scan_once(t, i) ==
  LET c == At(t, i)
  IN IF c = 34
     THEN LET str == scanstring(t, i + 1, <<>>)
          IN IF str.ok THEN Parsed(PyStr(str.val), str.pos) ELSE ParseFail
     ELSE IF c = 123
     THEN IF At(t, SkipWs(t, i + 1)) = 125
          THEN Parsed(PyDict(<<>>), SkipWs(t, i + 1) + 1)
          ELSE JSONObject(t, SkipWs(t, i + 1), <<>>)
     ELSE IF c = 91
     THEN IF At(t, SkipWs(t, i + 1)) = 93
          THEN Parsed(PyList(<<>>), SkipWs(t, i + 1) + 1)
          ELSE JSONArray(t, SkipWs(t, i + 1), <<>>)
     ELSE IF StartsAt(t, i, <<110, 117, 108, 108>>) THEN Parsed(PyNone, i + 4)
     ELSE IF StartsAt(t, i, <<116, 114, 117, 101>>)
     THEN Parsed(PyBool(TRUE), i + 4)
     ELSE IF StartsAt(t, i, <<102, 97, 108, 115, 101>>)
     THEN Parsed(PyBool(FALSE), i + 5)
     ELSE IF StartsAt(t, i, <<78, 97, 78>>)
     THEN Parsed(PyFloat(<<78, 97, 78>>), i + 3)
     ELSE IF StartsAt(t, i, <<73, 110, 102, 105, 110, 105, 116, 121>>)
     THEN Parsed(PyFloat(SubSeq(t, i, i + 7)), i + 8)
     ELSE IF StartsAt(t, i, <<45, 73, 110, 102, 105, 110, 105, 116, 121>>)
     THEN Parsed(PyFloat(SubSeq(t, i, i + 8)), i + 9)
     ELSE scan_number(t, i)

\* json.loads(text): the value, or JSONDecodeError
json_loads(t) ==
  LET value == scan_once(t, SkipWs(t, 1))
  IN IF At(t, 1) = 65279 \/ ~value.ok THEN Raise("JSONDecodeError")
     ELSE IF SkipWs(t, value.pos) <= Len(t) THEN Raise("JSONDecodeError")
     ELSE value.val

(***************************************************************************)
(* RepoStats.__init__ (src/src/repo_stats.py).                             *)
(***************************************************************************)
\* what repo_path may name: nothing, a regular file, a directory that is no
\* git repository, a bare repository, a repository with a working tree
RepoPaths == {"missing", "file", "dir", "bare", "work_tree"}

\* Path(repo_path).exists()
Path_exists(p) == p # "missing"

\* git.Repo(repo_path): the Repo object, or the exception GitPython raises
git_Repo(p) ==
  IF p = "missing" THEN Raise("NoSuchPathError")
  ELSE IF p \in {"file", "dir"} THEN Raise("InvalidGitRepositoryError")
  ELSE [type |-> "Repo",
        working_tree_dir |-> IF p = "bare" THEN PyNone ELSE PyStr(RootStr)]

\* RepoStats(repo_path): the object, or the exception that reaches the caller
RepoStats_init(p) ==
  IF ~Path_exists(p) THEN Raise("ValueError")
  ELSE LET repo == git_Repo(p)
       IN IF repo.type = "raise" THEN repo
          ELSE IF repo.working_tree_dir = PyNone THEN Raise("ValueError")
          ELSE [type |-> "RepoStats", repo |-> repo,
                working_tree_dir |-> repo.working_tree_dir,
                repo_name |-> PyStr(RootName)]

\* no evaluation file, no load and no save yet
EvalIdle ==
  /\ evaluation_file = PyNone
  /\ loaded = PyNone
  /\ saved = PyNone
  /\ saved_eval = PyNone
  /\ scores = PyNone
  /\ scored = PyNone

\* no file has a content that matters, no get_file_stats call yet
StatsIdle ==
  /\ content = <<>>
  /\ file_stats = PyNone

\* no repos file, no read_repos_file call yet
ReposIdle ==
  /\ repos_file = PyNone
  /\ repos = PyNone

\* the evaluation tab has not run yet
AppIdle ==
  /\ show_eval_form = PyNone
  /\ status = "none"
  /\ form_shown = FALSE
  /\ event = "none"
  /\ run_pc = "idle"

\* no commit-history call is under way, on a constructed RepoStats
CommitsIdle ==
  /\ iter_commits = <<>>
  /\ start_date = 0
  /\ end_date = 0
  /\ idx = 1
  /\ commits = <<>>
  /\ cpc = "start"
  /\ repo_path = "work_tree"
  /\ repo_stats = RepoStats_init("work_tree")

\* no tree call is under way, on an empty directory
TreeIdle ==
  /\ fs = (<<>> :> "dir")
  /\ max_depth = <<>>
  /\ exclude_patterns = <<>>
  /\ caller = "none"
  /\ tree = PyNone
  /\ pc = "start"
  /\ raw_json = PyNone
  /\ tree_view = PyNone
  /\ copy_view = PyNone

InitTree ==
  /\ fs \in FSSet
  /\ max_depth = <<>>
  /\ exclude_patterns = <<>>
  /\ caller = "none"
  /\ tree = PyNone
  /\ pc = "start"
  /\ raw_json = PyNone
  /\ tree_view = PyNone
  /\ copy_view = PyNone
  /\ CommitsIdle
  /\ EvalIdle
  /\ StatsIdle
  /\ ReposIdle
  /\ AppIdle

\* FileStructureAnalyzer(directory, max_depth, exclude_patterns).get_file_structure()
FileStructureAnalyzer_get_file_structure(md, pats) ==
  /\ pc = "start"
  /\ max_depth' = md
  /\ exclude_patterns' = pats
  /\ caller' = "FileStructureAnalyzer"
  /\ tree' = get_file_structure(fs, md, pats)
  /\ pc' = "done"
  /\ UNCHANGED <<fs, raw_json, tree_view, copy_view, commitVars, evalVars,
                 statsVars, reposVars, appVars>>

\* RepoStats(repo_path).get_file_structure(max_depth, exclude_patterns)
RepoStats_get_file_structure_call(md, pats) ==
  /\ pc = "start"
  /\ max_depth' = md
  /\ exclude_patterns' = pats
  /\ caller' = "RepoStats"
  /\ tree' = RepoStats_get_file_structure(fs, md, pats)
  /\ pc' = "done"
  /\ UNCHANGED <<fs, raw_json, tree_view, copy_view, commitVars, evalVars,
                 statsVars, reposVars, appVars>>

\* the dashboard: the slider's value and the pattern lines go to
\* generate_report, which passes them to get_file_structure
main(slider, pats) ==
  /\ pc = "start"
  /\ max_depth' = <<slider>>
  /\ exclude_patterns' = pats
  /\ caller' = "app"
  /\ tree' = RepoStats_get_file_structure(fs, <<slider>>, pats)
  /\ pc' = "done"
  /\ UNCHANGED <<fs, raw_json, tree_view, copy_view, commitVars, evalVars,
                 statsVars, reposVars, appVars>>

\* FileStructureAnalyzer(directory, max_depth, exclude_patterns)
\* .get_formated_tree(): the tree, its JSON text and its outline; an
\* exception of get_file_structure passes through
get_formated_tree(md, pats) ==
  /\ pc = "start"
  /\ max_depth' = md
  /\ exclude_patterns' = pats
  /\ caller' = "FileStructureAnalyzer"
  /\ tree' = get_file_structure(fs, md, pats)
  /\ IF tree'.type = "raise"
     THEN UNCHANGED <<raw_json, tree_view>>
     ELSE /\ raw_json' = PyStr(json_dumps(tree', 2, TRUE))
          /\ tree_view' =
               PyList(FileStructureAnalyzer_format_tree(tree'.items, <<>>, 1))
  /\ pc' = "done"
  /\ UNCHANGED <<fs, copy_view, commitVars, evalVars,
                 statsVars, reposVars, appVars>>

\* format_tree(tree) of utils.py on the tree a builder has returned
utils_format_tree ==
  /\ pc = "done"
  /\ tree.type = "dict"
  /\ tree_view = PyNone
  /\ tree_view' = PyList(format_tree(tree.items, <<>>, 1))
  /\ UNCHANGED <<fs, max_depth, exclude_patterns, caller, tree, pc, raw_json,
                 copy_view, commitVars, evalVars,
                 statsVars, reposVars, appVars>>

\* the tree goes through its JSON text and back, and the copy is rendered:
\* format_tree(json.loads(json.dumps(tree, indent=2)))
render_copy ==
  /\ pc = "done"
  /\ tree.type = "dict"
  /\ copy_view = PyNone
  /\ raw_json' = PyStr(json_dumps(tree, 2, TRUE))
  /\ LET copy == json_loads(raw_json'.s)
     IN copy_view' = IF copy.type = "dict"
                     THEN PyList(format_tree(copy.items, <<>>, 1))
                     ELSE copy
  /\ UNCHANGED <<fs, max_depth, exclude_patterns, caller, tree, pc, tree_view,
                 commitVars, evalVars,
                 statsVars, reposVars, appVars>>

NextTree ==
  \/ \E md \in DepthOpts, pats \in PatternLists :
       FileStructureAnalyzer_get_file_structure(md, pats)
  \/ \E md \in DepthOpts, pats \in PatternLists : get_formated_tree(md, pats)
  \/ utils_format_tree
  \/ render_copy
  \/ \E md \in DepthOpts, pats \in PatternLists :
       RepoStats_get_file_structure_call(md, pats)
  \/ \E slider \in SliderMin..SliderMax, pats \in PatternLists :
       main(slider, pats)

SpecTree == InitTree /\ [][NextTree]_vars

(***************************************************************************)
(* RepoStats.get_commit_history (src/src/repo_stats.py).  Timestamps are   *)
(* integers; bytes are [type |-> "bytes", b |-> the byte values].          *)
(***************************************************************************)
PyBytes(b) == [type |-> "bytes", b |-> b]

\* "Unknown"
UNKNOWN == <<85, 110, 107, 110, 111, 119, 110>>

\* a default for None only
PyOr_none_only(x, default) == IF x.type = "NoneType" THEN default ELSE x

\* x or default: None and the empty string are false
PyOr(x, default) ==
  IF x.type = "NoneType" \/ (x.type = "str" /\ x.s = <<>>) THEN default ELSE x

\* the code point that the bytes of one UTF-8 sequence stand for (a first
\* byte and the continuation bytes after it), -1 if they are no sequence
DecodeSequence(c) ==
  LET n == Len(c)
  IN IF n = 1 /\ c[1] < 128 THEN c[1]
     ELSE IF n = 2 /\ c[1] \in 194..223 THEN (c[1] - 192) * 64 + (c[2] - 128)
     ELSE IF /\ n = 3 /\ c[1] \in 224..239
             /\ c[1] = 224 => c[2] >= 160
             /\ c[1] = 237 => c[2] <= 159
     THEN (c[1] - 224) * 4096 + (c[2] - 128) * 64 + (c[3] - 128)
     ELSE IF /\ n = 4 /\ c[1] \in 240..244
             /\ c[1] = 240 => c[2] >= 144
             /\ c[1] = 244 => c[2] <= 143
     THEN (c[1] - 240) * 262144 + (c[2] - 128) * 4096
          + (c[3] - 128) * 64 + (c[4] - 128)
     ELSE -1

\* bytes.decode("utf-8"): [ok |-> TRUE, s |-> the code points], or
\* [ok |-> FALSE] where Python raises UnicodeDecodeError.  A sequence
\* starts at every byte that is no continuation byte (80..BF).
decode_utf8(b) ==
  LET starts ==
        SelectSeq([i \in 1..Len(b) |-> i], LAMBDA i : b[i] \notin 128..191)
      sequence(k) ==
        SubSeq(b, starts[k],
               IF k < Len(starts) THEN starts[k + 1] - 1 ELSE Len(b))
      cps == [k \in 1..Len(starts) |-> DecodeSequence(sequence(k))]
  IN IF b = <<>> THEN [ok |-> TRUE, s |-> <<>>]
     ELSE IF starts = <<>> \/ starts[1] # 1 \/ \E k \in DOMAIN cps : cps[k] < 0
     THEN [ok |-> FALSE, s |-> <<>>]
     ELSE [ok |-> TRUE, s |-> cps]

\* the UTF-8 bytes of one character
EncodeChar(cp) ==
  IF cp < 128 THEN <<cp>>
  ELSE IF cp < 2048 THEN <<192 + (cp \div 64), 128 + (cp % 64)>>
  ELSE IF cp < 65536
  THEN <<224 + (cp \div 4096), 128 + ((cp \div 64) % 64), 128 + (cp % 64)>>
  ELSE <<240 + (cp \div 262144), 128 + ((cp \div 4096) % 64),
         128 + ((cp \div 64) % 64), 128 + (cp % 64)>>

\* the UTF-8 encoding of a text without surrogates, half by half
RECURSIVE Utf8Encode(_)
Utf8Encode(s) ==
  IF s = <<>> THEN <<>>
  ELSE IF Len(s) = 1 THEN EncodeChar(s[1])
  ELSE Utf8Encode(SubSeq(s, 1, Len(s) \div 2))
       \o Utf8Encode(SubSeq(s, Len(s) \div 2 + 1, Len(s)))

\* the function without its try/except: the UnicodeDecodeError escapes
parse_byte_message_no_except(text) ==
  IF text.type = "NoneType" THEN PyStr(<<>>)
  ELSE IF text.type = "bytes"
  THEN LET d == decode_utf8(text.b)
       IN IF d.ok THEN PyStr(d.s) ELSE Raise("UnicodeDecodeError")
  ELSE text

parse_byte_message(text) ==
  IF text.type = "NoneType" THEN PyStr(<<>>)
  ELSE IF text.type = "bytes"
  THEN LET d == decode_utf8(text.b)
       IN IF d.ok THEN PyStr(d.s) ELSE PyStr(<<>>)
  ELSE text

\* a commit as iter_commits yields it; files is len(commit.stats.files)
Commit(t, profile) ==
  [committed_datetime |-> t, author_email |-> profile.author_email,
   author_name |-> profile.author_name, message |-> profile.message,
   files |-> profile.files]

\* author and message of the commits of a log: "t@e" / "T" / "m" with one
\* file; no email, an empty name and a message of bytes that are not UTF-8
Profiles ==
  {[author_email |-> PyStr(<<116, 64, 101>>), author_name |-> PyStr(<<84>>),
    message |-> PyStr(<<109>>), files |-> 1],
   [author_email |-> PyNone, author_name |-> PyStr(<<>>),
    message |-> PyBytes(<<255>>), files |-> 0]}

\* the condition of a commit older than the window
stop_condition_before(commit, s, e) == commit.committed_datetime < s

\* the condition of a commit outside the window [start_date, end_date]
stop_condition_or(commit, s, e) ==
  commit.committed_datetime < s \/ commit.committed_datetime > e

\* the condition with the two dates exchanged
stop_condition_swapped(commit, s, e) ==
  commit.committed_datetime < e /\ commit.committed_datetime > s

\* commit.committed_datetime < start_date and commit.committed_datetime > end_date
stop_condition(commit, s, e) ==
  commit.committed_datetime < s /\ commit.committed_datetime > e

CommitEntry(commit) ==
  [date |-> commit.committed_datetime,
   author_email |-> PyOr(commit.author_email, PyStr(UNKNOWN)),
   author_name |-> PyOr(commit.author_name, PyStr(UNKNOWN)),
   message |-> parse_byte_message(commit.message),
   files_changed |-> commit.files]

\* a path of any kind; only a repository with a working tree has a log here
InitCommits ==
  /\ TreeIdle
  /\ EvalIdle
  /\ StatsIdle
  /\ ReposIdle
  /\ AppIdle
  /\ repo_path \in RepoPaths
  /\ repo_stats = PyNone
  /\ \E n \in 0..MaxCommits, profile \in Profiles :
       \E ts \in [1..n -> 0..MaxTime] :
         /\ repo_path # "work_tree" => n = 0
         /\ iter_commits = [i \in 1..n |-> Commit(ts[i], profile)]
  /\ start_date = 0
  /\ end_date = 0
  /\ idx = 1
  /\ commits = <<>>
  /\ cpc = "new"

\* repo_stats = RepoStats(repo_path)
RepoStats_new ==
  /\ cpc = "new"
  /\ repo_stats' = RepoStats_init(repo_path)
  /\ cpc' = IF repo_stats'.type = "raise" THEN "failed" ELSE "start"
  /\ UNCHANGED <<iter_commits, start_date, end_date, idx, commits, repo_path,
                 treeVars, evalVars,
                 statsVars, reposVars, appVars>>

\* get_commit_history(start_date, end_date) is called: commits = []
get_commit_history(s, e) ==
  /\ cpc = "start"
  /\ start_date' = s
  /\ end_date' = e
  /\ commits' = <<>>
  /\ idx' = 1
  /\ cpc' = "loop"
  /\ UNCHANGED <<iter_commits, repo_path, repo_stats, treeVars, evalVars,
                 statsVars, reposVars, appVars>>

\* the next commit satisfies the condition: break, return commits
loop_break ==
  /\ cpc = "loop"
  /\ idx <= Len(iter_commits)
  /\ stop_condition(iter_commits[idx], start_date, end_date)
  /\ cpc' = "done"
  /\ UNCHANGED <<iter_commits, start_date, end_date, idx, commits, repo_path,
                 repo_stats, treeVars, evalVars,
                 statsVars, reposVars, appVars>>

\* the next commit does not: commits.append(CommitEntry(...))
loop_append ==
  /\ cpc = "loop"
  /\ idx <= Len(iter_commits)
  /\ ~stop_condition(iter_commits[idx], start_date, end_date)
  /\ commits' = Append(commits, CommitEntry(iter_commits[idx]))
  /\ idx' = idx + 1
  /\ UNCHANGED <<iter_commits, start_date, end_date, cpc, repo_path,
                 repo_stats, treeVars, evalVars,
                 statsVars, reposVars, appVars>>

\* iter_commits is exhausted: return commits
loop_end ==
  /\ cpc = "loop"
  /\ idx > Len(iter_commits)
  /\ cpc' = "done"
  /\ UNCHANGED <<iter_commits, start_date, end_date, idx, commits, repo_path,
                 repo_stats, treeVars, evalVars,
                 statsVars, reposVars, appVars>>

NextCommits ==
  \/ RepoStats_new
  \/ \E s \in 0..MaxTime, e \in 0..MaxTime : get_commit_history(s, e)
  \/ loop_break
  \/ loop_append
  \/ loop_end

SpecCommits == InitCommits /\ [][NextCommits]_vars

\* the longest log of the specification of the entries
MaxEntryLog == 2

\* commit.author.email, commit.author.name and the number of changed files:
\* None, the empty string and a text occur for the email and for the name
Authors ==
  {[author_email |-> PyStr(<<116, 64, 101>>), author_name |-> PyStr(<<84>>),
    files |-> 2],
   [author_email |-> PyNone, author_name |-> PyStr(<<>>), files |-> 0],
   [author_email |-> PyStr(<<>>), author_name |-> PyNone, files |-> 1]}

\* commit.message: None, str, and bytes that are or are not UTF-8 (ASCII,
\* sequences of 2, 3 and 4 bytes; a lone continuation byte, 0xff, a cut
\* sequence, an overlong form, a surrogate, a bad byte after a good one)
Messages ==
  {PyNone, PyStr(<<109>>), PyStr(<<>>),
   PyBytes(<<>>), PyBytes(<<109>>), PyBytes(<<195, 169>>),
   PyBytes(<<228, 184, 150>>), PyBytes(<<240, 159, 152, 128>>),
   PyBytes(<<128, 129, 130, 131>>), PyBytes(<<255>>), PyBytes(<<195>>),
   PyBytes(<<192, 128>>), PyBytes(<<237, 160, 128>>), PyBytes(<<109, 255>>)}

\* short logs whose commits carry every author and every message
InitEntries ==
  /\ TreeIdle
  /\ EvalIdle
  /\ StatsIdle
  /\ ReposIdle
  /\ AppIdle
  /\ \E n \in 0..MaxEntryLog, author \in Authors, message \in Messages :
       \E ts \in [1..n -> 0..MaxTime] :
         iter_commits =
           [i \in 1..n |->
              Commit(ts[i], [author_email |-> author.author_email,
                             author_name |-> author.author_name,
                             message |-> message, files |-> author.files])]
  /\ start_date = 0
  /\ end_date = 0
  /\ idx = 1
  /\ commits = <<>>
  /\ cpc = "new"
  /\ repo_path = "work_tree"
  /\ repo_stats = PyNone

SpecEntries == InitEntries /\ [][NextCommits]_vars

(***************************************************************************)
(* The rubric (src/src/evaluation.py).  A model class is the list of its   *)
(* score fields, each with the largest value it admits (the smallest is 0  *)
(* for all); every score field f has a text field f_comment after it,      *)
(* whose default is "".                                                    *)
(***************************************************************************)
Score10 == 10

Score5 == 5

Score15 == 15

Score1 == 1

StructureProjetDesign ==
  <<
    \* architecture_modulaire
    << <<97, 114, 99, 104, 105, 116, 101, 99, 116, 117, 114, 101, 95, 109,
         111, 100, 117, 108, 97, 105, 114, 101>>,
       Score10 >>,
    \* lisibilite_code
    << <<108, 105, 115, 105, 98, 105, 108, 105, 116, 101, 95, 99, 111, 100,
         101>>,
       Score5 >>,
    \* refactorisation
    << <<114, 101, 102, 97, 99, 116, 111, 114, 105, 115, 97, 116, 105, 111,
         110>>,
       Score5 >>,
    \* tests_unitaires
    << <<116, 101, 115, 116, 115, 95, 117, 110, 105, 116, 97, 105, 114,
         101, 115>>,
       Score10 >>,
    \* environnement_virtuel
    << <<101, 110, 118, 105, 114, 111, 110, 110, 101, 109, 101, 110, 116,
         95, 118, 105, 114, 116, 117, 101, 108>>,
       Score10 >>
  >>

CollaborationQualite ==
  <<
    \* git_utilisation
    << <<103, 105, 116, 95, 117, 116, 105, 108, 105, 115, 97, 116, 105,
         111, 110>>,
       Score10 >>,
    \* repartition_taches
    << <<114, 101, 112, 97, 114, 116, 105, 116, 105, 111, 110, 95, 116, 97,
         99, 104, 101, 115>>,
       Score15 >>
  >>

DocumentationLivrables ==
  <<
    \* readme
    << <<114, 101, 97, 100, 109, 101>>,
       Score10 >>,
    \* code_commente
    << <<99, 111, 100, 101, 95, 99, 111, 109, 109, 101, 110, 116, 101>>,
       Score5 >>,
    \* guide_utilisation
    << <<103, 117, 105, 100, 101, 95, 117, 116, 105, 108, 105, 115, 97,
         116, 105, 111, 110>>,
       Score5 >>,
    \* livrables_propres
    << <<108, 105, 118, 114, 97, 98, 108, 101, 115, 95, 112, 114, 111, 112,
         114, 101, 115>>,
       Score5 >>,
    \* prompt_engineering
    << <<112, 114, 111, 109, 112, 116, 95, 101, 110, 103, 105, 110, 101,
         101, 114, 105, 110, 103>>,
       Score10 >>
  >>

BonusML ==
  <<
    \* choix_modele
    << <<99, 104, 111, 105, 120, 95, 109, 111, 100, 101, 108, 101>>,
       Score1 >>,
    \* pretraitement
    << <<112, 114, 101, 116, 114, 97, 105, 116, 101, 109, 101, 110, 116>>,
       Score1 >>,
    \* evaluation_modele
    << <<101, 118, 97, 108, 117, 97, 116, 105, 111, 110, 95, 109, 111, 100,
         101, 108, 101>>,
       Score1 >>,
    \* analyse_critique
    << <<97, 110, 97, 108, 121, 115, 101, 95, 99, 114, 105, 116, 105, 113,
         117, 101>>,
       Score1 >>,
    \* shap_avance
    << <<115, 104, 97, 112, 95, 97, 118, 97, 110, 99, 101>>,
       Score1 >>
  >>

BonusTechnique ==
  <<
    \* pipeline_ml
    << <<112, 105, 112, 101, 108, 105, 110, 101, 95, 109, 108>>,
       Score1 >>,
    \* shap_integre
    << <<115, 104, 97, 112, 95, 105, 110, 116, 101, 103, 114, 101>>,
       Score1 >>,
    \* interface_fonctionnelle
    << <<105, 110, 116, 101, 114, 102, 97, 99, 101, 95, 102, 111, 110, 99,
         116, 105, 111, 110, 110, 101, 108, 108, 101>>,
       Score1 >>,
    \* complexite
    << <<99, 111, 109, 112, 108, 101, 120, 105, 116, 101>>,
       Score1 >>,
    \* dependances
    << <<100, 101, 112, 101, 110, 100, 97, 110, 99, 101, 115>>,
       Score1 >>
  >>

\* the sections, in the order of the class EvaluationProjet
EvaluationProjet ==
  <<
    \* structure
    << <<115, 116, 114, 117, 99, 116, 117, 114, 101>>,
       StructureProjetDesign >>,
    \* collaboration
    << <<99, 111, 108, 108, 97, 98, 111, 114, 97, 116, 105, 111, 110>>,
       CollaborationQualite >>,
    \* documentation
    << <<100, 111, 99, 117, 109, 101, 110, 116, 97, 116, 105, 111, 110>>,
       DocumentationLivrables >>,
    \* bonus_ml
    << <<98, 111, 110, 117, 115, 95, 109, 108>>,
       BonusML >>,
    \* bonus_tech
    << <<98, 111, 110, 117, 115, 95, 116, 101, 99, 104>>,
       BonusTechnique >>
  >>

\* "_comment"
COMMENT_SUFFIX == <<95, 99, 111, 109, 109, 101, 110, 116>>

(***************************************************************************)
(* The constructor of EvaluationProjet (pydantic), called with the      *)
(* items of the value json.load returned as its keyword arguments.         *)
(* A validated object is [type |-> "EvaluationProjet", data |-> the dict   *)
(* model_dump() gives: the sections and the fields in declaration order].  *)
(***************************************************************************)
HasKey(items, key) == \E j \in DOMAIN items : items[j][1] = key

GetItem(items, key) == items[CHOOSE j \in DOMAIN items : items[j][1] = key][2]

\* bool(value)
PyTruth(value) ==
  IF value.type = "NoneType" THEN FALSE
  ELSE IF value.type = "bool" THEN value.b
  ELSE IF value.type = "int" THEN value.n # 0
  ELSE IF value.type = "float"
  THEN \E i \in DOMAIN value.text : value.text[i] \in 49..57
  ELSE IF value.type = "str" THEN value.s # <<>>
  ELSE value.items # <<>>

\* an int field in lax mode: an int, a bool, or a text of decimal digits;
\* then ge=0 and le=max.  (A float is taken for invalid here.)
ValidateScore(value, max) ==
  LET n == IF value.type = "int" THEN value.n
           ELSE IF value.type = "bool" THEN (IF value.b THEN 1 ELSE 0)
           ELSE IF /\ value.type = "str"
                   /\ value.s # <<>>
                   /\ \A i \in DOMAIN value.s : IsDigit(value.s[i])
           THEN DigitsVal(value.s, 1, Len(value.s) + 1)
           ELSE -1
  IN IF n >= 0 /\ n <= max THEN PyInt(n) ELSE Raise("ValidationError")

\* the fields i, i + 1, ... of a model class, validated from the items of
\* the input dict and appended to acc
RECURSIVE ValidateFields(_, _, _, _)
ValidateFields(cls, items, i, acc) ==
  IF i > Len(cls) THEN PyDict(acc)
  ELSE LET name == cls[i][1]
           comment_name == name \o COMMENT_SUFFIX
           score == IF HasKey(items, name)
                    THEN ValidateScore(GetItem(items, name), cls[i][2])
                    ELSE Raise("ValidationError")
           comment == IF ~HasKey(items, comment_name) THEN PyStr(<<>>)
                      ELSE IF GetItem(items, comment_name).type = "str"
                      THEN GetItem(items, comment_name)
                      ELSE Raise("ValidationError")
       IN IF score.type = "raise" \/ comment.type = "raise"
          THEN Raise("ValidationError")
          ELSE ValidateFields(cls, items, i + 1,
                              acc \o << <<name, score>>,
                                        <<comment_name, comment>> >>)

\* the sections i, i + 1, ... of EvaluationProjet
RECURSIVE ValidateSections(_, _, _)
ValidateSections(items, i, acc) ==
  IF i > Len(EvaluationProjet) THEN PyDict(acc)
  ELSE LET name == EvaluationProjet[i][1]
           section ==
             IF HasKey(items, name) /\ GetItem(items, name).type = "dict"
             THEN ValidateFields(EvaluationProjet[i][2],
                                 GetItem(items, name).items, 1, <<>>)
             ELSE Raise("ValidationError")
       IN IF section.type = "raise" THEN section
          ELSE ValidateSections(items, i + 1, Append(acc, <<name, section>>))

\* EvaluationProjet called with ** data: a TypeError if data is no mapping
EvaluationProjet_init(data) ==
  IF data.type # "dict" THEN Raise("TypeError")
  ELSE LET fields == ValidateSections(data.items, 1, <<>>)
       IN IF fields.type = "raise" THEN fields
          ELSE [type |-> "EvaluationProjet", data |-> fields]

\* evaluation.model_dump()
model_dump(evaluation) == evaluation.data

(***************************************************************************)
(* ProjectEvaluator (src/src/project_eval.py).  The evaluation file is     *)
(* None when it does not exist, [type |-> "dir"] when the path is a        *)
(* directory, and the bytes it holds otherwise.                            *)
(***************************************************************************)
PyDir == [type |-> "dir"]

\* a file that can be read and cannot be written
ReadOnly(b) == [type |-> "read_only", b |-> b]

\* open(path, "w") succeeds
Writable(file) == file.type \notin {"dir", "read_only"}

\* "Evaluation file does not exist"
MSG_NOT_EXIST ==
  <<69, 118, 97, 108, 117, 97, 116, 105, 111, 110, 32, 102, 105, 108, 101,
    32, 100, 111, 101, 115, 32, 110, 111, 116, 32, 101, 120, 105, 115, 116>>

\* "Evaluation file is empty"
MSG_EMPTY ==
  <<69, 118, 97, 108, 117, 97, 116, 105, 111, 110, 32, 102, 105, 108, 101,
    32, 105, 115, 32, 101, 109, 112, 116, 121>>

\* "JSON parsing error: "
MSG_JSON ==
  <<74, 83, 79, 78, 32, 112, 97, 114, 115, 105, 110, 103, 32, 101, 114, 114,
    111, 114, 58, 32>>

\* "Validation error: "
MSG_VALIDATION ==
  <<86, 97, 108, 105, 100, 97, 116, 105, 111, 110, 32, 101, 114, 114, 111,
    114, 58, 32>>

\* a part of the text str(e) of the exceptions that can be caught:
\* "Expecting value", "'utf-8' codec", "[Errno 21]", "validation error",
\* "argument after **"
ExcStr(exc) ==
  CASE exc = "JSONDecodeError" ->
         <<69, 120, 112, 101, 99, 116, 105, 110, 103, 32, 118, 97, 108, 117,
           101>>
    [] exc = "UnicodeDecodeError" ->
         <<39, 117, 116, 102, 45, 56, 39, 32, 99, 111, 100, 101, 99>>
    [] exc = "IsADirectoryError" ->
         <<91, 69, 114, 114, 110, 111, 32, 50, 49, 93>>
    [] exc = "ValidationError" ->
         <<118, 97, 108, 105, 100, 97, 116, 105, 111, 110, 32, 101, 114, 114,
           111, 114>>
    [] OTHER ->
         <<97, 114, 103, 117, 109, 101, 110, 116, 32, 97, 102, 116, 101, 114,
           32, 42, 42>>

\* with open(path, "r", encoding="utf-8") as f: data = json.load(f)
json_load(file) ==
  IF file.type = "dir" THEN Raise("IsADirectoryError")
  ELSE LET text == decode_utf8(file.b)
       IN IF text.ok THEN json_loads(text.s) ELSE Raise("UnicodeDecodeError")

\* the tuple load_evaluation returns
LoadResult(evaluation, is_valid, error_message) ==
  [type |-> "tuple", evaluation |-> evaluation, is_valid |-> is_valid,
   error_message |-> error_message]

load_evaluation(file) ==
  IF file.type = "NoneType" THEN LoadResult(PyNone, FALSE, MSG_NOT_EXIST)
  ELSE LET data == json_load(file)
           evaluation == EvaluationProjet_init(data)
       IN IF data.type = "raise"
          THEN IF data.exc = "JSONDecodeError"
               THEN LoadResult(PyNone, FALSE, MSG_JSON \o ExcStr(data.exc))
               ELSE LoadResult(PyNone, FALSE,
                               MSG_VALIDATION \o ExcStr(data.exc))
          ELSE IF ~PyTruth(data) THEN LoadResult(PyNone, FALSE, MSG_EMPTY)
          ELSE IF evaluation.type = "raise"
          THEN LoadResult(PyNone, FALSE,
                          MSG_VALIDATION \o ExcStr(evaluation.exc))
          ELSE LoadResult(evaluation, TRUE, <<>>)

\* save_evaluation with open(path, "w") and no encoding, where the
\* platform's encoding is Latin-1: one byte per character
save_evaluation_locale(file, evaluation) ==
  IF ~Writable(file) THEN [file |-> file, result |-> PyBool(FALSE)]
  ELSE [file |-> PyBytes(json_dumps(model_dump(evaluation), 4, FALSE)),
        result |-> PyBool(TRUE)]

\* what save_evaluation leaves in the file and returns: json.dump of
\* model_dump() with indent=4 and ensure_ascii=False, written as UTF-8;
\* open fails on a directory and on a file that cannot be written
save_evaluation(file, evaluation) ==
  IF ~Writable(file) THEN [file |-> file, result |-> PyBool(FALSE)]
  ELSE [file |-> PyBytes(Utf8Encode(json_dumps(model_dump(evaluation), 4,
                                               FALSE))),
        result |-> PyBool(TRUE)]

(***************************************************************************)
(* Evaluations and evaluation files of the model.                          *)
(***************************************************************************)
\* the largest score given to architecture_modulaire
MaxArchScore == 2

\* the items of a model class with every score 0 and every comment ""
DefaultFields(cls) ==
  [k \in 1..(2 * Len(cls)) |->
     IF k % 2 = 1 THEN <<cls[(k + 1) \div 2][1], PyInt(0)>>
     ELSE <<cls[k \div 2][1] \o COMMENT_SUFFIX, PyStr(<<>>)>>]

\* the keyword arguments of create_default_evaluation, as one dict
DefaultData ==
  PyDict([i \in 1..Len(EvaluationProjet) |->
            <<EvaluationProjet[i][1],
              PyDict(DefaultFields(EvaluationProjet[i][2]))>>])

create_default_evaluation == EvaluationProjet_init(DefaultData)

\* data with data[section][key] = value, for the i-th section
WithField(data, i, key, value) ==
  PyDict([data.items EXCEPT
            ![i] = <<@[1], PyDict(SetItem(@[2].items, key, value))>>])

\* the items without the key
WithoutKey(items, key) == SelectSeq(items, LAMBDA it : it[1] # key)

\* data without data[section][key], for the i-th section
WithoutField(data, i, key) ==
  PyDict([data.items EXCEPT ![i] = <<@[1], PyDict(WithoutKey(@[2].items, key))>>])

\* "architecture_modulaire" and "architecture_modulaire_comment"
ARCH == StructureProjetDesign[1][1]

ARCH_COMMENT == ARCH \o COMMENT_SUFFIX

\* the comments tried: none, and one with a double quote, a backslash and a
\* letter outside ASCII
Comments == {<<>>, N_quote}

\* the default data with a score and a comment for architecture_modulaire
EvalData(score, comment) ==
  WithField(WithField(DefaultData, 1, ARCH, PyInt(score)),
            1, ARCH_COMMENT, PyStr(comment))

Evaluations ==
  {EvaluationProjet_init(EvalData(score, comment)) :
     score \in 0..MaxArchScore, comment \in Comments}

\* a file that holds the text
TextFile(text) == PyBytes(Utf8Encode(text))

\* the JSON text of a value as save_evaluation writes it
Dumped(data) == json_dumps(data, 4, FALSE)

\* files that a load accepts: what save_evaluation writes, the same with
\* indent=2 and \uXXXX escapes, with a key the rubric does not have, and
\* without a comment
ValidFiles ==
  {TextFile(Dumped(model_dump(e))) : e \in Evaluations}
  \cup {TextFile(json_dumps(EvalData(1, N_quote), 2, TRUE)),
        TextFile(Dumped(WithField(DefaultData, 1, N_a_py, PyNone))),
        TextFile(Dumped(WithoutField(DefaultData, 1, ARCH_COMMENT)))}

\* "invalid: json: content: ["
INVALID_CONTENT ==
  <<105, 110, 118, 97, 108, 105, 100, 58, 32, 106, 115, 111, 110, 58, 32, 99,
    111, 110, 116, 101, 110, 116, 58, 32, 91>>

\* files that are no JSON text: the tests' "invalid: json: content: [", an
\* empty file, the first half of a saved file, "{'a': 1}", and bytes that
\* are not UTF-8 (0xff alone and after "{}")
MalformedFiles ==
  {TextFile(INVALID_CONTENT),
   TextFile(<<>>),
   TextFile(SubSeq(Dumped(DefaultData), 1, Len(Dumped(DefaultData)) \div 2)),
   TextFile(<<123, 39, 97, 39, 58, 32, 49, 125>>),
   PyBytes(<<255>>),
   PyBytes(<<123, 125, 255>>)}

\* JSON texts that are no evaluation: {}, null, [], 0, [1], 5, "x"; a score
\* of 11, of -1, a score "x", a score null, a missing score, a comment 5,
\* a missing section, a section null
SchemaViolatingFiles ==
  {TextFile(<<123, 125>>), TextFile(<<110, 117, 108, 108>>),
   TextFile(<<91, 93>>), TextFile(<<48>>), TextFile(<<91, 49, 93>>),
   TextFile(<<53>>), TextFile(<<34, 120, 34>>),
   TextFile(Dumped(WithField(DefaultData, 1, ARCH, PyInt(Score10 + 1)))),
   TextFile(Dumped(WithField(DefaultData, 1, ARCH, PyInt(-1)))),
   TextFile(Dumped(WithField(DefaultData, 1, ARCH, PyStr(<<120>>)))),
   TextFile(Dumped(WithField(DefaultData, 1, ARCH, PyNone))),
   TextFile(Dumped(WithoutField(DefaultData, 1, ARCH))),
   TextFile(Dumped(WithField(DefaultData, 1, ARCH_COMMENT, PyInt(5)))),
   TextFile(Dumped(PyDict(SubSeq(DefaultData.items, 1, 4)))),
   TextFile(Dumped(PyDict(SetItem(DefaultData.items, EvaluationProjet[5][1],
                                  PyNone))))}

\* a saved evaluation that cannot be written again
ReadOnlyFile == ReadOnly(Utf8Encode(Dumped(DefaultData)))

Files ==
  ValidFiles \cup MalformedFiles \cup SchemaViolatingFiles
  \cup {PyDir, ReadOnlyFile}

InitEval ==
  /\ TreeIdle
  /\ CommitsIdle
  /\ StatsIdle
  /\ ReposIdle
  /\ AppIdle
  /\ evaluation_file \in {PyNone} \cup Files
  /\ loaded = PyNone
  /\ saved = PyNone
  /\ saved_eval = PyNone
  /\ scores = PyNone
  /\ scored = PyNone

\* loaded = evaluator.load_evaluation()
ProjectEvaluator_load_evaluation ==
  /\ loaded' = load_evaluation(evaluation_file)
  /\ UNCHANGED <<evaluation_file, saved, saved_eval, scores, scored, treeVars,
                 commitVars, statsVars, reposVars, appVars>>

\* saved = evaluator.save_evaluation(evaluation)
ProjectEvaluator_save_evaluation(evaluation) ==
  /\ evaluation_file' = save_evaluation(evaluation_file, evaluation).file
  /\ saved' = save_evaluation(evaluation_file, evaluation).result
  /\ saved_eval' = evaluation
  /\ UNCHANGED <<loaded, scores, scored, treeVars, commitVars,
                 statsVars, reposVars, appVars>>

NextEval ==
  \/ ProjectEvaluator_load_evaluation
  \/ \E evaluation \in Evaluations :
       ProjectEvaluator_save_evaluation(evaluation)

SpecEval == InitEval /\ [][NextEval]_vars

(***************************************************************************)
(* ProjectEvaluator.calculate_scores (src/src/project_eval.py).            *)
(***************************************************************************)
\* structure_score: the fields of evaluation.structure that the code adds up
structure_score_terms ==
  <<\* architecture_modulaire
    <<97, 114, 99, 104, 105, 116, 101, 99, 116, 117, 114, 101, 95, 109,
      111, 100, 117, 108, 97, 105, 114, 101>>,
    \* lisibilite_code
    <<108, 105, 115, 105, 98, 105, 108, 105, 116, 101, 95, 99, 111, 100,
      101>>,
    \* refactorisation
    <<114, 101, 102, 97, 99, 116, 111, 114, 105, 115, 97, 116, 105, 111,
      110>>,
    \* tests_unitaires
    <<116, 101, 115, 116, 115, 95, 117, 110, 105, 116, 97, 105, 114, 101,
      115>>,
    \* environnement_virtuel
    <<101, 110, 118, 105, 114, 111, 110, 110, 101, 109, 101, 110, 116, 95,
      118, 105, 114, 116, 117, 101, 108>> >>

\* collaboration_score: the fields of evaluation.collaboration that the code adds up
collaboration_score_terms ==
  <<\* git_utilisation
    <<103, 105, 116, 95, 117, 116, 105, 108, 105, 115, 97, 116, 105, 111,
      110>>,
    \* repartition_taches
    <<114, 101, 112, 97, 114, 116, 105, 116, 105, 111, 110, 95, 116, 97,
      99, 104, 101, 115>> >>

\* documentation_score: the fields of evaluation.documentation that the code adds up
documentation_score_terms ==
  <<\* readme
    <<114, 101, 97, 100, 109, 101>>,
    \* code_commente
    <<99, 111, 100, 101, 95, 99, 111, 109, 109, 101, 110, 116, 101>>,
    \* guide_utilisation
    <<103, 117, 105, 100, 101, 95, 117, 116, 105, 108, 105, 115, 97, 116,
      105, 111, 110>>,
    \* livrables_propres
    <<108, 105, 118, 114, 97, 98, 108, 101, 115, 95, 112, 114, 111, 112,
      114, 101, 115>>,
    \* prompt_engineering
    <<112, 114, 111, 109, 112, 116, 95, 101, 110, 103, 105, 110, 101, 101,
      114, 105, 110, 103>> >>

\* bonus_ml_score: the fields of evaluation.bonus_ml that the code adds up
bonus_ml_score_terms ==
  <<\* choix_modele
    <<99, 104, 111, 105, 120, 95, 109, 111, 100, 101, 108, 101>>,
    \* pretraitement
    <<112, 114, 101, 116, 114, 97, 105, 116, 101, 109, 101, 110, 116>>,
    \* evaluation_modele
    <<101, 118, 97, 108, 117, 97, 116, 105, 111, 110, 95, 109, 111, 100,
      101, 108, 101>>,
    \* analyse_critique
    <<97, 110, 97, 108, 121, 115, 101, 95, 99, 114, 105, 116, 105, 113,
      117, 101>>,
    \* shap_avance
    <<115, 104, 97, 112, 95, 97, 118, 97, 110, 99, 101>> >>

\* bonus_tech_score: the fields of evaluation.bonus_tech that the code adds up
bonus_tech_score_terms ==
  <<\* pipeline_ml
    <<112, 105, 112, 101, 108, 105, 110, 101, 95, 109, 108>>,
    \* shap_integre
    <<115, 104, 97, 112, 95, 105, 110, 116, 101, 103, 114, 101>>,
    \* interface_fonctionnelle
    <<105, 110, 116, 101, 114, 102, 97, 99, 101, 95, 102, 111, 110, 99,
      116, 105, 111, 110, 110, 101, 108, 108, 101>>,
    \* complexite
    <<99, 111, 109, 112, 108, 101, 120, 105, 116, 101>>,
    \* dependances
    <<100, 101, 112, 101, 110, 100, 97, 110, 99, 101, 115>> >>


\* evaluation.<section>.<field>
Attr(evaluation, section, field) ==
  GetItem(GetItem(evaluation.data.items, section).items, field).n

\* evaluation.<section>.<terms[i]> + ... + evaluation.<section>.<terms[n]>
RECURSIVE SumTerms(_, _, _, _)
SumTerms(evaluation, section, terms, i) ==
  IF i > Len(terms) THEN 0
  ELSE Attr(evaluation, section, terms[i])
         + SumTerms(evaluation, section, terms, i + 1)

\* round((main_score / 100) * 100, 1) if main_score > 0 else 0: the float
\* main_score.0, or the int 0
Percentage(main_score) ==
  IF main_score > 0 THEN PyFloat(IntRepr(main_score) \o <<46, 48>>)
  ELSE PyInt(0)

\* calculate_scores without environnement_virtuel in structure_score
calculate_scores_short(evaluation) ==
  LET structure_score ==
        SumTerms(evaluation, EvaluationProjet[1][1],
                 SubSeq(structure_score_terms, 1, 4), 1)
      collaboration_score ==
        SumTerms(evaluation, EvaluationProjet[2][1],
                 collaboration_score_terms, 1)
      documentation_score ==
        SumTerms(evaluation, EvaluationProjet[3][1],
                 documentation_score_terms, 1)
      main_score == structure_score + collaboration_score + documentation_score
      bonus_ml_score ==
        SumTerms(evaluation, EvaluationProjet[4][1], bonus_ml_score_terms, 1)
      bonus_tech_score ==
        SumTerms(evaluation, EvaluationProjet[5][1], bonus_tech_score_terms, 1)
      total_bonus == bonus_ml_score + bonus_tech_score
      final_score == main_score + total_bonus
  IN [structure_score |-> structure_score, structure_max |-> 40,
      collaboration_score |-> collaboration_score, collaboration_max |-> 25,
      documentation_score |-> documentation_score, documentation_max |-> 35,
      main_score |-> main_score, main_max |-> 100,
      bonus_ml_score |-> bonus_ml_score, bonus_ml_max |-> 5,
      bonus_tech_score |-> bonus_tech_score, bonus_tech_max |-> 5,
      total_bonus |-> total_bonus, total_bonus_max |-> 10,
      final_score |-> final_score, final_max |-> 110,
      percentage |-> Percentage(main_score)]

\* the dict calculate_scores returns, as a record
calculate_scores(evaluation) ==
  LET structure_score ==
        SumTerms(evaluation, <<115, 116, 114, 117, 99, 116, 117, 114, 101>>,
                 structure_score_terms, 1)
      collaboration_score ==
        SumTerms(evaluation,
                 <<99, 111, 108, 108, 97, 98, 111, 114, 97, 116, 105, 111,
                   110>>,
                 collaboration_score_terms, 1)
      documentation_score ==
        SumTerms(evaluation,
                 <<100, 111, 99, 117, 109, 101, 110, 116, 97, 116, 105, 111,
                   110>>,
                 documentation_score_terms, 1)
      main_score == structure_score + collaboration_score + documentation_score
      bonus_ml_score ==
        SumTerms(evaluation, <<98, 111, 110, 117, 115, 95, 109, 108>>,
                 bonus_ml_score_terms, 1)
      bonus_tech_score ==
        SumTerms(evaluation,
                 <<98, 111, 110, 117, 115, 95, 116, 101, 99, 104>>,
                 bonus_tech_score_terms, 1)
      total_bonus == bonus_ml_score + bonus_tech_score
      final_score == main_score + total_bonus
  IN [structure_score |-> structure_score, structure_max |-> 40,
      collaboration_score |-> collaboration_score, collaboration_max |-> 25,
      documentation_score |-> documentation_score, documentation_max |-> 35,
      main_score |-> main_score, main_max |-> 100,
      bonus_ml_score |-> bonus_ml_score, bonus_ml_max |-> 5,
      bonus_tech_score |-> bonus_tech_score, bonus_tech_max |-> 5,
      total_bonus |-> total_bonus, total_bonus_max |-> 10,
      final_score |-> final_score, final_max |-> 110,
      percentage |-> Percentage(main_score)]

\* how the score fields of a section are filled: all 0, all 1, all at their
\* upper bound, or the odd ones at their upper bound and the even ones 0
ScoreLevels == {"zero", "one", "max", "odd"}

LevelScore(level, k, max) ==
  CASE level = "zero" -> 0
    [] level = "one" -> 1
    [] level = "max" -> max
    [] OTHER -> IF k % 2 = 1 THEN max ELSE 0

\* the items of a model class filled at the level, every comment ""
LevelFields(cls, level) ==
  [k \in 1..(2 * Len(cls)) |->
     IF k % 2 = 1
     THEN <<cls[(k + 1) \div 2][1],
            PyInt(LevelScore(level, (k + 1) \div 2, cls[(k + 1) \div 2][2]))>>
     ELSE <<cls[k \div 2][1] \o COMMENT_SUFFIX, PyStr(<<>>)>>]

\* the evaluation whose i-th section is filled at levels[i]
LevelEvaluation(levels) ==
  EvaluationProjet_init(
    PyDict([i \in 1..Len(EvaluationProjet) |->
              <<EvaluationProjet[i][1],
                PyDict(LevelFields(EvaluationProjet[i][2], levels[i]))>>]))

ScoredEvaluations ==
  {LevelEvaluation(levels) :
     levels \in [1..Len(EvaluationProjet) -> ScoreLevels]}

InitScores ==
  /\ TreeIdle
  /\ CommitsIdle
  /\ EvalIdle
  /\ StatsIdle
  /\ ReposIdle
  /\ AppIdle

\* scores = evaluator.calculate_scores(evaluation)
ProjectEvaluator_calculate_scores(evaluation) ==
  /\ scores' = calculate_scores(evaluation)
  /\ scored' = evaluation
  /\ UNCHANGED <<evaluation_file, loaded, saved, saved_eval, treeVars,
                 commitVars, statsVars, reposVars, appVars>>

NextScores ==
  \E evaluation \in ScoredEvaluations :
    ProjectEvaluator_calculate_scores(evaluation)

SpecScores == InitScores /\ [][NextScores]_vars

(***************************************************************************)
(* RepoStats.get_file_stats (src/src/repo_stats.py).  content maps every   *)
(* regular file of fs to the bytes it holds, or to the exception open()    *)
(* raises on it.                                                           *)
(***************************************************************************)
\* ".git", ".github", ".gitignore", "config", "ci.yml"
N_git == <<46, 103, 105, 116>>

N_github == <<46, 103, 105, 116, 104, 117, 98>>

N_gitignore == <<46, 103, 105, 116, 105, 103, 110, 111, 114, 101>>

N_config == <<99, 111, 110, 102, 105, 103>>

N_ci_yml == <<99, 105, 46, 121, 109, 108>>

\* "no extension"
NO_EXTENSION ==
  <<110, 111, 32, 101, 120, 116, 101, 110, 115, 105, 111, 110>>

\* word in text
PyIn(word, text) ==
  \E i \in 1..(Len(text) - Len(word) + 1) :
    SubSeq(text, i, i + Len(word) - 1) = word

\* Path(name).suffix: from the last dot on, if that dot is neither the
\* first nor the last character of the name
Suffix(name) ==
  LET dots == {i \in DOMAIN name : name[i] = 46}
      i == CHOOSE d \in dots : \A e \in dots : e <= d
  IN IF dots # {} /\ 1 < i /\ i < Len(name) THEN SubSeq(name, i, Len(name))
     ELSE <<>>

\* the directories os.walk(top) yields as root: top and every directory
\* below it that it can reach by listing (a listing that fails is skipped)
WalkRoots(F) ==
  {p \in DOMAIN F : \A i \in 0..Len(p) : F[SubSeq(p, 1, i)] = "dir"}

\* the names os.walk yields as files of a root: what is no directory
WalkFiles(F, root) ==
  {q \in DOMAIN F : q # <<>> /\ Parent(q) = root /\ ~IsDirKind(F[q])}

\* the number of bytes a text file decodes at a time
CHUNK_SIZE == 8192

\* the position of the first byte that starts no UTF-8 sequence, 0 if none
FirstInvalid(b) ==
  LET starts ==
        SelectSeq([i \in 1..Len(b) |-> i], LAMBDA i : b[i] \notin 128..191)
      sequence(k) ==
        SubSeq(b, starts[k],
               IF k < Len(starts) THEN starts[k + 1] - 1 ELSE Len(b))
      bad == {starts[k] : k \in {j \in DOMAIN starts :
                                   DecodeSequence(sequence(j)) < 0}}
  IN IF b = <<>> THEN 0
     ELSE IF b[1] \in 128..191 THEN 1
     ELSE IF bad = {} THEN 0
     ELSE CHOOSE m \in bad : \A x \in bad : m <= x

\* the line ends of a text read with universal newlines: \n, \r\n and \r
LineEnds(t) ==
  {i \in DOMAIN t :
     \/ t[i] = 10
     \/ t[i] = 13 /\ ~(i < Len(t) /\ t[i + 1] = 10)}

\* for _ in f, on a file opened with encoding="utf-8": n is the number of
\* lines the loop has gone through when it ends, ok whether it ended
\* without an exception.  The bytes are decoded chunk by chunk; the lines
\* of the chunks before the one with an invalid byte come out before the
\* UnicodeDecodeError does.
ReadLines(file) ==
  IF file.type = "raise" THEN [ok |-> FALSE, n |-> 0]
  ELSE LET b == file.b
           bad == FirstInvalid(b)
           before == SubSeq(b, 1, ((bad - 1) \div CHUNK_SIZE) * CHUNK_SIZE)
       IN IF bad = 0
          THEN [ok |-> TRUE,
                n |-> Cardinality(LineEnds(b))
                      + (IF b # <<>> /\ b[Len(b)] \notin {10, 13}
                         THEN 1 ELSE 0)]
          ELSE [ok |-> FALSE, n |-> Cardinality(LineEnds(before))]

\* the lines counted one by one inside the try: for _ in f: total_lines += 1
LinesAdded_one_by_one(r) == r.n

\* try: total_lines += sum(1 for _ in f)  except: pass
\* the sum is added only if the loop ends without an exception
LinesAdded(r) == IF r.ok THEN r.n ELSE 0

\* the contents of the files: "a\nb" (two lines), "" (none),
\* "a\r\nb\rc\n" (three), the bytes 80 81 82 83 (no UTF-8), "a\nb\n" and
\* then FF, CHUNK_SIZE empty lines and then FF, and a file that open()
\* refuses
Contents ==
  {PyBytes(<<97, 10, 98>>),
   PyBytes(<<>>),
   PyBytes(<<97, 13, 10, 98, 13, 99, 10>>),
   PyBytes(<<128, 129, 130, 131>>),
   PyBytes(<<97, 10, 98, 10, 255>>),
   PyBytes([i \in 1..(CHUNK_SIZE + 1) |-> IF i <= CHUNK_SIZE THEN 10 ELSE 255]),
   Raise("PermissionError")}

\* what the loop over each content gives
LinesOf == [c \in Contents |-> ReadLines(c)]

\* open(file_path, "r", encoding="utf-8") and the loop over its lines; what
\* is no regular file (a dangling link) cannot be opened
ReadFile(F, C, q) ==
  IF F[q] = "file" THEN LinesOf[C[q]] ELSE [ok |-> FALSE, n |-> 0]

RECURSIVE SumLines(_, _, _)
SumLines(F, C, files) ==
  IF files = {} THEN 0
  ELSE LET q == CHOOSE x \in files : TRUE
       IN LinesAdded(ReadFile(F, C, q)) + SumLines(F, C, files \ {q})

RECURSIVE SumValues(_)
SumValues(counts) ==
  IF DOMAIN counts = {} THEN 0
  ELSE LET e == CHOOSE x \in DOMAIN counts : TRUE
       IN counts[e] + SumValues([x \in DOMAIN counts \ {e} |-> counts[x]])

\* get_file_stats; file_types is the dict as a function from its keys
get_file_stats(F, C) ==
  LET roots == {root \in WalkRoots(F) : ~PyIn(N_git, PathStr(root))}
      counted == UNION {WalkFiles(F, root) : root \in roots}
      key(q) == IF Suffix(PathName(q)) = <<>> THEN NO_EXTENSION
                ELSE Suffix(PathName(q))
      file_counts ==
        [e \in {key(q) : q \in counted} |->
           Cardinality({q \in counted : key(q) = e})]
  IN [type |-> "FileStats",
      file_types |-> file_counts,
      total_files |-> SumValues(file_counts),
      total_lines |-> SumLines(F, C, counted)]

\* a work tree with a.py and .gitignore, .git/config and .github/ci.yml
RepoFS ==
  (<<>> :> "dir") @@ (<<N_a_py>> :> "file") @@ (<<N_gitignore>> :> "file")
  @@ (<<N_git>> :> "dir") @@ (<<N_git, N_config>> :> "file")
  @@ (<<N_github>> :> "dir") @@ (<<N_github, N_ci_yml>> :> "file")

\* a repository without any file but .git/config
EmptyRepoFS ==
  (<<>> :> "dir") @@ (<<N_git>> :> "dir") @@ (<<N_git, N_config>> :> "file")

\* a file without extension, a dangling link b.txt, a directory sub that
\* cannot be listed and holds a.py, and c.md/b.txt
LinkFS ==
  (<<>> :> "dir") @@ (<<N_config>> :> "file") @@ (<<N_b_txt>> :> "other")
  @@ (<<N_sub>> :> "denied") @@ (<<N_sub, N_a_py>> :> "file")
  @@ (<<N_c_md>> :> "dir") @@ (<<N_c_md, N_b_txt>> :> "file")

StatsFSSet == {RepoFS, EmptyRepoFS, LinkFS}

RegularFiles(F) == {q \in DOMAIN F : F[q] = "file"}

InitStats ==
  /\ fs \in StatsFSSet
  /\ content \in [RegularFiles(fs) -> Contents]
  /\ file_stats = PyNone
  /\ max_depth = <<>>
  /\ exclude_patterns = <<>>
  /\ caller = "none"
  /\ tree = PyNone
  /\ pc = "start"
  /\ raw_json = PyNone
  /\ tree_view = PyNone
  /\ copy_view = PyNone
  /\ CommitsIdle
  /\ EvalIdle
  /\ ReposIdle
  /\ AppIdle

\* file_stats = repo_stats.get_file_stats()
RepoStats_get_file_stats ==
  /\ file_stats' = get_file_stats(fs, content)
  /\ UNCHANGED <<content, treeVars, commitVars, evalVars, reposVars,
                 appVars>>

NextStats == RepoStats_get_file_stats

SpecStats == InitStats /\ [][NextStats]_vars

(***************************************************************************)
(* read_repos_file (src/src/download_repos.py).  The file is the list of   *)
(* its lines, each with the newline that ends it.                          *)
(***************************************************************************)
\* most lines of a repos file
MaxLines == 3

TextLines(lines) == [type |-> "file", lines |-> lines]

\* str.strip(): without the white space at both ends
Strip(str) ==
  LET black == {i \in DOMAIN str : str[i] \notin {9, 10, 11, 12, 13, 32}}
      first == CHOOSE i \in black : \A j \in black : i <= j
      last == CHOOSE i \in black : \A j \in black : j <= i
  IN IF black = {} THEN <<>> ELSE SubSeq(str, first, last)

\* line.startswith("#")
StartsWithHash(line) == line # <<>> /\ line[1] = 35

\* f"gr{i:02}": "gr" and i with at least two digits
GroupId(i) ==
  <<103, 114>> \o (IF i < 10 THEN <<48>> ELSE <<>>) \o IntRepr(i)

\* the dict comprehension over enumerate(file, start=1), from line i on
RECURSIVE ReposFrom(_, _)
ReposFrom(lines, i) ==
  IF i > Len(lines) THEN <<>>
  ELSE IF Strip(lines[i]) # <<>> /\ ~StartsWithHash(lines[i])
  THEN <<<<GroupId(i), PyStr(Strip(lines[i]))>>>> \o ReposFrom(lines, i + 1)
  ELSE ReposFrom(lines, i + 1)

\* sys.exit(1) if there is no such file, else the dict
read_repos_file(file) ==
  IF file.type = "NoneType" THEN Raise("SystemExit")
  ELSE PyDict(ReposFrom(file.lines, 1))

\* the lines tried: "u", "", " ", "#c", " #c" and " u ", each before "\n"
RepoLines ==
  {<<117, 10>>, <<10>>, <<32, 10>>, <<35, 99, 10>>, <<32, 35, 99, 10>>,
   <<32, 117, 32, 10>>}

RECURSIVE SeqsUpTo(_, _)
SeqsUpTo(S, n) ==
  IF n = 0 THEN {<<>>}
  ELSE LET shorter == SeqsUpTo(S, n - 1)
       IN shorter \cup {Append(q, x) : q \in shorter, x \in S}

InitRepos ==
  /\ repos_file \in {PyNone} \cup {TextLines(l) : l \in SeqsUpTo(RepoLines, MaxLines)}
  /\ repos = PyNone
  /\ TreeIdle
  /\ CommitsIdle
  /\ EvalIdle
  /\ StatsIdle
  /\ AppIdle

\* repos = read_repos_file(INPUT_FILE)
download_main ==
  /\ repos' = read_repos_file(repos_file)
  /\ UNCHANGED <<repos_file, treeVars, commitVars, evalVars, statsVars,
                 appVars>>

NextRepos == download_main

SpecRepos == InitRepos /\ [][NextRepos]_vars

(***************************************************************************)
(* The evaluation tab of the dashboard (src/app.py, main, "with tab2").    *)
(* One action is one run of the script; st.rerun() ends the run at once    *)
(* and starts another.                                                     *)
(***************************************************************************)
\* the files the tab is opened on: none, a directory, a saved evaluation,
\* the same read-only, "invalid: json: content: [", "{}", a score of 11
AppFiles ==
  {PyNone, PyDir, TextFile(Dumped(DefaultData)), ReadOnlyFile,
   TextFile(INVALID_CONTENT), TextFile(<<123, 125>>),
   TextFile(Dumped(WithField(DefaultData, 1, ARCH, PyInt(Score10 + 1))))}

InitApp ==
  /\ evaluation_file \in AppFiles
  /\ loaded = PyNone
  /\ saved = PyNone
  /\ saved_eval = PyNone
  /\ scores = PyNone
  /\ scored = PyNone
  /\ AppIdle
  /\ TreeIdle
  /\ CommitsIdle
  /\ StatsIdle
  /\ ReposIdle

\* st.session_state.get("show_eval_form", False)
SessionGet(flag) == flag = PyBool(TRUE)

\* a run of the tab.  ev is what started it; new_evaluation is what the
\* form's widgets hold.  The Edit button exists after a run that found a
\* valid file, the form's button after a run that rendered the form.
main_tab2(ev, new_evaluation) ==
  /\ IF run_pc = "rerun" THEN ev = "rerun" ELSE ev \in {"open", "edit", "submit"}
  /\ ev = "edit" => status = "success"
  /\ ev = "submit" => form_shown
  /\ \E result \in {load_evaluation(evaluation_file)} :
       LET current_evaluation == result.evaluation
           is_valid == result.is_valid
           \* the first branch, the elif, the else
           branch == IF current_evaluation = PyNone THEN "info"
                     ELSE IF ~is_valid THEN "warning"
                     ELSE "success"
           \* if st.button("Edit Evaluation"): show_eval_form = True
           flag == IF branch = "success" /\ ev = "edit" THEN PyBool(TRUE)
                   ELSE show_eval_form
           show_form == IF branch = "success" THEN SessionGet(flag) ELSE TRUE
           \* render_evaluation_form: st.form_submit_button(...)
           submitted == show_form /\ ev = "submit"
       IN /\ loaded' = result
          /\ status' = branch
          /\ form_shown' = show_form
          /\ event' = ev
          /\ IF submitted
             THEN \E save \in {save_evaluation(evaluation_file,
                                               new_evaluation)} :
                    /\ evaluation_file' = save.file
                    /\ saved' = save.result
                    /\ saved_eval' = new_evaluation
                    /\ IF save.result = PyBool(TRUE)
                       \* st.success(...); st.rerun(): the run ends here
                       THEN /\ run_pc' = "rerun"
                            /\ show_eval_form' = flag
                       \* st.error(...); return submitted;
                       \* st.session_state.show_eval_form = False
                       ELSE /\ run_pc' = "idle"
                            /\ show_eval_form' = PyBool(FALSE)
             ELSE /\ run_pc' = "idle"
                  /\ show_eval_form' = flag
                  /\ UNCHANGED <<evaluation_file, saved, saved_eval>>
  /\ UNCHANGED <<scores, scored, treeVars, commitVars, statsVars, reposVars>>

\* a run started by opening the page, by the Edit button or by st.rerun(),
\* and a run started by the form's button
NextApp ==
  \/ \E ev \in {"open", "edit", "rerun"} :
       main_tab2(ev, create_default_evaluation)
  \/ \E new_evaluation \in Evaluations : main_tab2("submit", new_evaluation)

SpecApp == InitApp /\ [][NextApp]_vars

(***************************************************************************)
(* Properties of the tree builders.                                        *)
(***************************************************************************)
\* a call has returned a tree (it did not end with an exception)
Returned == pc = "done" /\ tree.type = "dict"

\* some pattern of the list matches the string
MatchesAny(pats, str) == \E i \in DOMAIN pats : Search(pats[i], str)

\* the path itself and the directories above it, up to the root
Prefixes(p) == {SubSeq(p, 1, k) : k \in 0..Len(p)}

\* p is D or lies below D
IsUnder(D, p) == Len(p) >= Len(D) /\ SubSeq(p, 1, Len(D)) = D

\* the exclusion signal of the builder that was called
Sentinel ==
  IF caller = "FileStructureAnalyzer" THEN PyStr(EXCLUDE_SIGNAL) ELSE PyNone

\* the tree the called builder returns for the file system F
BuildWith(F) ==
  IF caller = "FileStructureAnalyzer"
  THEN get_file_structure(F, max_depth, exclude_patterns)
  ELSE RepoStats_get_file_structure(F, max_depth, exclude_patterns)

\* the files the tree holds as leaves carrying their base name
FileLeaves ==
  {p \in TreePaths(tree) :
     fs[p] = "file" /\ ValueAt(tree, p) = PyStr(PathName(p))}

\* C1 (as claimed): a path below the root whose path string matches an
\* exclusion pattern never has an entry in the returned tree, whatever
\* max_depth is, not even the truncation marker.
C1_ExcludedNeverAppears ==
  Returned =>
    \A p \in TreePaths(tree) \ {<<>>} :
      ~MatchesAny(exclude_patterns, PathStr(p))

\* {"r": {"a.py": "a.py", "b.txt": "b.txt", "sub": "..."}}
ScenarioTree ==
  PyDict(<< <<RootName,
              PyDict(<< <<N_a_py, PyStr(N_a_py)>>,
                        <<N_b_txt, PyStr(N_b_txt)>>,
                        <<N_sub, PyStr(END_SIGNAL)>> >>)>> >>)

\* C2 (as claimed): with a depth limit every file that has an entry in the
\* tree is stored as its base name (only directories are truncated), and
\* max_depth = 0 on the directory with a.py, b.txt and sub/c.md gives
\* {root: {a.py: "a.py", b.txt: "b.txt", sub: "..."}}.
C2_FilesKeptAtDepthLimit ==
  Returned /\ max_depth # <<>> =>
    /\ \A p \in TreePaths(tree) :
         fs[p] = "file" => ValueAt(tree, p) = PyStr(PathName(p))
    /\ fs = ScenarioFS /\ max_depth = <<0>> /\ exclude_patterns = <<>>
         => tree = ScenarioTree

\* C3 (as claimed): with max_depth = None the file leaves of the tree are
\* exactly the files whose own path string matches no exclusion pattern.
C3_LeavesAreUnmatchedFiles ==
  Returned /\ max_depth = <<>> =>
    FileLeaves = {p \in DOMAIN fs :
                    fs[p] = "file" /\ ~MatchesAny(exclude_patterns, PathStr(p))}

\* C3 (amended): with max_depth = None the file leaves of a returned tree are
\* exactly the files such that no exclusion pattern matches the path string
\* of the file or of a directory above it (the root included) and every
\* directory above it can be listed.
C3_LeavesAreReachedFiles ==
  Returned /\ max_depth = <<>> =>
    FileLeaves =
      {p \in DOMAIN fs :
         /\ fs[p] = "file"
         /\ \A q \in Prefixes(p) :
              /\ ~MatchesAny(exclude_patterns, PathStr(q))
              /\ q # p => fs[q] = "dir"}

\* C3 witness: a tree built without depth limit that has file leaves and
\* lacks a file whose own path matches no pattern.
C3_Witness ==
  /\ Returned
  /\ max_depth = <<>>
  /\ FileLeaves # {}
  /\ \E p \in DOMAIN fs :
       /\ fs[p] = "file"
       /\ ~MatchesAny(exclude_patterns, PathStr(p))
       /\ p \notin FileLeaves

\* C4 (as claimed): no value stored in a returned tree, the value under the
\* root's name included, is the exclusion signal.
C4_SentinelNeverStored ==
  Returned => \A p \in TreePaths(tree) : ValueAt(tree, p) # Sentinel

\* C5 (as claimed): the value stored for an ordinary file (one within the
\* depth limit) is never the truncation, exclusion or unreadable signal.
C5_FileValueIsNoSignal ==
  Returned =>
    \A p \in TreePaths(tree) :
      fs[p] = "file" /\ (max_depth = <<>> \/ Len(p) <= max_depth[1]) =>
        ValueAt(tree, p).s
          \notin {END_SIGNAL, EXCLUDE_SIGNAL, PERMISSION_DENIED}

\* C6 (as claimed): no call ends with an exception, whatever failure the
\* traversal meets.
C6_NoExceptionEscapes == pc = "done" => tree.type # "raise"

\* the directory D is reached and its listing is attempted
Listed(D) ==
  \A q \in Prefixes(D) :
    /\ ~MatchesAny(exclude_patterns, PathStr(q))
    /\ max_depth = <<>> \/ Len(q) <= max_depth[1]
    /\ q # D => fs[q] = "dir"

\* the keys of a dict, in order
Keys(v) == [i \in DOMAIN v.items |-> v.items[i][1]]

\* the trees t1 and t2 agree on everything that is not below D
SameOutside(t1, t2, D) ==
  LET out1 == {p \in TreePaths(t1) : ~IsUnder(D, p)}
      out2 == {p \in TreePaths(t2) : ~IsUnder(D, p)}
  IN /\ out1 = out2
     /\ D \in TreePaths(t1) <=> D \in TreePaths(t2)
     /\ \A p \in out1 :
          LET v1 == ValueAt(t1, p)
              v2 == ValueAt(t2, p)
          IN IF v1.type = "dict"
             THEN v2.type = "dict" /\ Keys(v1) = Keys(v2)
             ELSE v1 = v2

\* C7: a permission error on listing a directory D never reaches the caller
\* (a call fails only if the file system holds something that is neither a
\* file nor a directory); D's entry is "Permission denied"; and everything
\* outside D's subtree is what the builder returns when D can be listed.
C7_PermissionErrorIsLocal ==
  pc = "done" =>
    /\ tree.type = "raise" => tree.exc # "PermissionError"
    /\ (\A q \in DOMAIN fs : fs[q] # "other") => tree.type = "dict"
    /\ \A D \in DOMAIN fs :
         fs[D] = "denied" /\ tree.type = "dict" =>
           /\ Listed(D) =>
                /\ D \in TreePaths(tree)
                /\ ValueAt(tree, D) = PyStr(PERMISSION_DENIED)
           /\ LET t2 == BuildWith([fs EXCEPT ![D] = "dir"])
              IN t2.type = "dict" => SameOutside(tree, t2, D)

\* C7 witness: an unlistable directory with content beside a file; both are
\* in the tree.
C7_Witness ==
  /\ Returned
  /\ \E D \in DOMAIN fs :
       /\ fs[D] = "denied"
       /\ Listed(D)
       /\ \E c \in DOMAIN fs : Parent(c) = D /\ c # D
       /\ \E p \in FileLeaves : ~IsUnder(D, p)

C9_SliderZeroIsFullDepth ==
  pc = "done" /\ caller = "app" /\ max_depth = <<0>> =>
    tree = RepoStats_get_file_structure(fs, <<>>, exclude_patterns)

\* why build_tree answers with a signal when it is called on the path p at
\* the depth of p: "truncated", "excluded", "unreadable", or "none"
SignalKind(p) ==
  IF max_depth # <<>> /\ Len(p) > max_depth[1] THEN "truncated"
  ELSE IF MatchesAny(exclude_patterns, PathStr(p)) THEN "excluded"
  ELSE IF fs[p] = "denied" THEN "unreadable"
  ELSE "none"

Rendered == pc = "done" /\ tree.type = "dict" /\ tree_view.type = "list"

\* the index paths of the entries of a mapping and of the mappings in it
RECURSIVE IndexPaths(_, _)
IndexPaths(items, p) ==
  UNION {{Append(p, i)}
         \cup (IF items[i][2].type = "dict"
               THEN IndexPaths(items[i][2].items, Append(p, i))
               ELSE {}) : i \in DOMAIN items}

\* the items of the mapping that holds the entry p
RECURSIVE SiblingsOf(_, _)
SiblingsOf(items, p) ==
  IF Len(p) = 1 THEN items ELSE SiblingsOf(items[Head(p)][2].items, Tail(p))

EntryKey(items, p) == SiblingsOf(items, p)[p[Len(p)]][1]

EntryValue(items, p) == SiblingsOf(items, p)[p[Len(p)]][2]

\* the entry p is the last one of its mapping
IsLastEntry(items, p) == p[Len(p)] = Len(SiblingsOf(items, p))

\* the order of two sequences of numbers by their first difference, a
\* proper prefix first: the code-point order of two names, and the order
\* in which a mapping is walked entry by entry, each mapping right after
\* its own entry
RECURSIVE SeqLess(_, _)
SeqLess(p, q) ==
  IF p = <<>> THEN q # <<>>
  ELSE IF q = <<>> THEN FALSE
  ELSE IF Head(p) # Head(q) THEN Head(p) < Head(q)
  ELSE SeqLess(Tail(p), Tail(q))

\* the number of the line of the entry p
LineOf(items, p) ==
  1 + Cardinality({q \in IndexPaths(items, <<>>) : SeqLess(q, p)})

\* "    " for each entry above p that is the last one of its mapping and
\* "│   " for each that is not, from the top down to the k-th
RECURSIVE IndentOf(_, _, _)
IndentOf(items, p, k) ==
  IF k = 0 THEN <<>>
  ELSE IndentOf(items, p, k - 1)
       \o (IF IsLastEntry(items, SubSeq(p, 1, k)) THEN <<32, 32, 32, 32>>
           ELSE <<9474, 32, 32, 32>>)

\* indent and prefix of the line of p: "└── " for a last entry, "├── "
\* for another
LineStart(items, p) ==
  IndentOf(items, p, Len(p) - 1)
  \o (IF IsLastEntry(items, p) THEN <<9492, 9472, 9472, 32>>
      ELSE <<9500, 9472, 9472, 32>>)

ExpectedLine(items, p) ==
  LET key == EntryKey(items, p)
      value == EntryValue(items, p)
  IN LineStart(items, p)
     \o (IF value.type = "dict" THEN key \o <<47>>
         ELSE IF value = PyStr(<<46, 46, 46>>)
         THEN key \o <<47, 32, 46, 46, 46>>
         ELSE IF value.type = "str" THEN value.s
         ELSE <<78, 111, 110, 101>>)

\* two entries of the same mapping
Siblings(p, q) ==
  Len(p) = Len(q) /\ SubSeq(p, 1, Len(p) - 1) = SubSeq(q, 1, Len(q) - 1)

\* C17: in every mapping of a returned tree the names stand in ascending
\* code-point order, capitals before small letters; and in the outline the
\* line of a name comes before the lines of the larger names beside it.
C17_SiblingsAscending ==
  Returned =>
    LET items == tree.items
        entries == IndexPaths(items, <<>>)
    IN /\ \A p, q \in entries :
            Siblings(p, q) /\ p[Len(p)] < q[Len(q)] =>
              SeqLess(EntryKey(items, p), EntryKey(items, q))
       /\ Rendered =>
            \A p, q \in entries :
              Siblings(p, q)
              /\ SeqLess(EntryKey(items, p), EntryKey(items, q)) =>
                \E m, n \in DOMAIN tree_view.items :
                  /\ m < n
                  /\ tree_view.items[m] = ExpectedLine(items, p)
                  /\ tree_view.items[n] = ExpectedLine(items, q)

\* C17 witness: the outline of r/ with B.txt before a.py before sub/, and
\* B.txt before c.md inside sub/.
C17_Witness ==
  /\ Rendered
  /\ fs = CaseFS
  /\ Len(tree_view.items) = 6
  /\ tree_view.items[2] =
       <<32, 32, 32, 32, 9500, 9472, 9472, 32, 66, 46, 116, 120, 116>>
  /\ tree_view.items[3] =
       <<32, 32, 32, 32, 9500, 9472, 9472, 32, 97, 46, 112, 121>>
  /\ tree_view.items[5] =
       <<32, 32, 32, 32, 32, 32, 32, 32, 9500, 9472, 9472, 32,
         66, 46, 116, 120, 116>>

\* C16: the outline made of the copy of a tree that went through its JSON
\* text and back is a list of lines, the same list as the outline made of
\* the tree itself; and the JSON text of a tree reads back as that tree.
C16_RoundTripSameOutline ==
  /\ copy_view.type # "NoneType" =>
       /\ copy_view.type = "list"
       /\ tree_view.type = "list" => copy_view = tree_view
  /\ pc = "done" /\ raw_json.type = "str" => json_loads(raw_json.s) = tree

\* C16 witness: both outlines have been made of a tree that holds the file
\* whose name has a double quote, a backslash and a letter outside ASCII.
C16_Witness ==
  /\ Rendered
  /\ fs = EscapeFS
  /\ <<N_quote>> \in TreePaths(tree)
  /\ ValueAt(tree, <<N_quote>>) = PyStr(N_quote)
  /\ copy_view = tree_view
  /\ Len(copy_view.items) = 4

(***************************************************************************)
(* Properties of the commit history.                                       *)
(***************************************************************************)
\* the positions of the commits whose timestamp is earlier than start_date
\* and later than end_date
InsideInverted ==
  {i \in DOMAIN iter_commits :
     /\ iter_commits[i].committed_datetime < start_date
     /\ iter_commits[i].committed_datetime > end_date}

\* C10 (as claimed): with start_date after end_date the loop never stops
\* early: the returned list has an entry for every commit of the source.
C10_InvertedWindowNeverStops ==
  cpc = "done" /\ start_date > end_date =>
    Len(commits) = Len(iter_commits)

\* C10 (amended): with start_date after end_date the loop stops at the first
\* commit whose timestamp lies strictly between end_date and start_date; the
\* returned list has one entry, in order, for each commit before that one,
\* and an entry for every commit only when there is no such commit.
C10_InvertedWindowStopsInside ==
  cpc = "done" /\ start_date > end_date =>
    /\ Len(commits) =
         IF InsideInverted = {} THEN Len(iter_commits)
         ELSE (CHOOSE i \in InsideInverted :
                 \A j \in InsideInverted : i <= j) - 1
    /\ \A i \in DOMAIN commits :
         commits[i].date = iter_commits[i].committed_datetime

\* C10 witness: an inverted window over a log of 5 commits, of which some
\* but not all are returned.
C10_Witness ==
  /\ cpc = "done"
  /\ start_date > end_date
  /\ Len(iter_commits) = 5
  /\ Len(commits) \in 1..4

\* C11: for every window, get_commit_history returns one entry, in the order
\* of the source, for each commit before the first commit whose timestamp
\* is earlier than start_date and later than end_date, and for every commit
\* when there is none; no commit before that one is left out, whatever its
\* timestamp, and that commit and all after it are omitted.
C11_PrefixBeforeFirstStop ==
  cpc = "done" =>
    /\ Len(commits) =
         IF InsideInverted = {} THEN Len(iter_commits)
         ELSE (CHOOSE i \in InsideInverted :
                 \A j \in InsideInverted : i <= j) - 1
    /\ \A i \in DOMAIN commits :
         /\ commits[i].date = iter_commits[i].committed_datetime
         /\ commits[i].files_changed = iter_commits[i].files

\* C11 witness: the loop has stopped with commits left after the stopping
\* one, and the returned entries lie outside the window on both sides.
C11_Witness ==
  /\ cpc = "done"
  /\ Len(commits) + 1 < Len(iter_commits)
  /\ \E i, j \in DOMAIN commits :
       commits[i].date >= start_date /\ commits[j].date <= end_date

\* C12: the author_email of every entry is the email of its commit when that
\* is a non-empty text and the text "Unknown" when it is None or empty, and
\* the same holds of author_name and the name of the commit's author.
C12_AuthorOrUnknown ==
  \A i \in DOMAIN commits :
    LET Shown(v) ==
          IF v.type = "str" /\ v.s # <<>> THEN v
          ELSE PyStr(<<85, 110, 107, 110, 111, 119, 110>>)
    IN /\ commits[i].author_email = Shown(iter_commits[i].author_email)
       /\ commits[i].author_name = Shown(iter_commits[i].author_name)

\* C12 witness: a returned entry of a commit whose author has no email and
\* an empty name.
C12_Witness ==
  /\ cpc = "done"
  /\ Len(commits) >= 1
  /\ iter_commits[1].author_email = PyNone
  /\ iter_commits[1].author_name = PyStr(<<>>)
  /\ commits[1].author_email = PyStr(UNKNOWN)

\* the messages of Messages that are bytes and not UTF-8
Undecodable ==
  {<<128, 129, 130, 131>>, <<255>>, <<195>>, <<192, 128>>,
   <<237, 160, 128>>, <<109, 255>>}

\* C13: the message of every entry is a text: the empty text for a message
\* of None and for bytes that are not UTF-8, the text whose UTF-8 encoding
\* the bytes are otherwise, and the message itself when it is a text; the
\* entry keeps the commit's number of changed files, and a traversal that
\* meets no stopping commit returns an entry for every commit.
C13_MessageAlwaysText ==
  /\ \A i \in DOMAIN commits :
       LET m == iter_commits[i].message
           r == commits[i].message
       IN /\ r.type = "str"
          /\ m.type = "NoneType" => r.s = <<>>
          /\ m.type = "str" => r = m
          /\ m.type = "bytes" =>
               IF m.b \in Undecodable THEN r.s = <<>>
               ELSE Utf8Encode(r.s) = m.b
          /\ commits[i].files_changed = iter_commits[i].files
  /\ cpc = "done" /\ InsideInverted = {} =>
       Len(commits) = Len(iter_commits)

\* C13 witness: two commits whose message is the bytes 80 81 82 83 are both
\* returned, with an empty message and their two changed files.
C13_Witness ==
  /\ cpc = "done"
  /\ Len(iter_commits) = 2
  /\ iter_commits[1].message = PyBytes(<<128, 129, 130, 131>>)
  /\ Len(commits) = 2
  /\ commits[1].message = PyStr(<<>>)
  /\ commits[1].files_changed = 2

(***************************************************************************)
(* Properties of the constructor.                                          *)
(***************************************************************************)
\* C14 (as claimed): whenever RepoStats(repo_path) fails, whatever the path
\* names, the exception that reaches the caller is a ValueError.
C14_OnlyValueError ==
  repo_stats.type = "raise" => repo_stats.exc = "ValueError"

(***************************************************************************)
(* Properties of the evaluation file.                                      *)
(***************************************************************************)
\* the text holds the word
Contains(text, word) ==
  \E i \in 1..(Len(text) - Len(word) + 1) :
    SubSeq(text, i, i + Len(word) - 1) = word

\* a load has returned and the file is still the one it read
Loaded == loaded.type = "tuple" /\ saved = PyNone

\* the load has failed: no evaluation, not valid
LoadFailed == loaded.evaluation = PyNone /\ ~loaded.is_valid

\* "does not exist", "parsing error", "Validation error"
SaysMissing == Contains(loaded.error_message, SubSeq(MSG_NOT_EXIST, 17, 30))

SaysParsing ==
  Contains(loaded.error_message,
           <<112, 97, 114, 115, 105, 110, 103, 32, 101, 114, 114, 111, 114>>)

SaysValidation ==
  Contains(loaded.error_message,
           <<86, 97, 108, 105, 100, 97, 116, 105, 111, 110, 32, 101, 114,
             114, 111, 114>>)

\* C19 (as claimed): a load of a missing file, of a file that is no
\* well-formed JSON text and of a well-formed text that is no evaluation
\* fails with a message of its own kind each: "does not exist", a parsing
\* error, a validation error, and the message of no other kind.
C19_MessageOfItsKind ==
  Loaded =>
    /\ evaluation_file = PyNone =>
         LoadFailed /\ SaysMissing /\ ~SaysParsing /\ ~SaysValidation
    /\ evaluation_file \in MalformedFiles =>
         LoadFailed /\ SaysParsing /\ ~SaysMissing /\ ~SaysValidation
    /\ evaluation_file \in SchemaViolatingFiles =>
         LoadFailed /\ SaysValidation /\ ~SaysMissing /\ ~SaysParsing

\* C20 (as claimed): a load of the file "invalid: json: content: [" fails
\* with a message that contains "YAML parsing error".
C20_YamlParsingError ==
  Loaded /\ evaluation_file = TextFile(INVALID_CONTENT) =>
    /\ LoadFailed
    /\ Contains(loaded.error_message,
                <<89, 65, 77, 76, 32, 112, 97, 114, 115, 105, 110, 103, 32,
                  101, 114, 114, 111, 114>>)

\* a step in which save_evaluation was called (and changed something)
SaveStep ==
  \/ evaluation_file' # evaluation_file
  \/ saved' # saved
  \/ saved_eval' # saved_eval

\* a step in which load_evaluation was called (and changed something)
LoadStep == loaded' # loaded

\* the load has returned (e, True, '') with e the evaluation last given to
\* save_evaluation, equal field for field
LoadedLastSaved ==
  /\ loaded'.is_valid
  /\ loaded'.error_message = <<>>
  /\ loaded'.evaluation.type = "EvaluationProjet"
  /\ \A i \in DOMAIN EvaluationProjet :
       LET section == GetItem(loaded'.evaluation.data.items,
                              EvaluationProjet[i][1])
           given == GetItem(saved_eval.data.items, EvaluationProjet[i][1])
       IN /\ Len(section.items) = 2 * Len(EvaluationProjet[i][2])
          /\ \A k \in DOMAIN section.items :
               /\ HasKey(given.items, section.items[k][1])
               /\ GetItem(given.items, section.items[k][1])
                    = section.items[k][2]

\* C21 (as claimed): every save_evaluation of an evaluation that satisfies
\* the rubric returns True, and every load_evaluation after a save returns
\* (e, True, '') with e equal to the evaluation saved last.
C21_SaveAlwaysRoundTrips ==
  [][/\ SaveStep => saved' = PyBool(TRUE)
     /\ LoadStep /\ saved # PyNone => LoadedLastSaved]_vars

\* C21 (amended): where the path of the evaluation file can be opened for
\* writing (it is no directory and no read-only file), every save_evaluation of an evaluation
\* that satisfies the rubric returns True; and every load_evaluation that
\* follows a save that returned True returns (e, True, '') with e equal
\* field for field to the evaluation saved last, whatever was saved or was
\* in the file before.
C21_SaveLoadRoundTrip ==
  [][/\ SaveStep /\ evaluation_file.type \notin {"dir", "read_only"} =>
          saved' = PyBool(TRUE)
     /\ LoadStep /\ saved = PyBool(TRUE) => LoadedLastSaved]_vars

\* a load has returned the evaluation saved over an invalid or older file:
\* the largest score tried, a comment with a quote, a backslash and a
\* letter outside ASCII
C21_Witness ==
  /\ saved = PyBool(TRUE)
  /\ loaded = LoadResult(saved_eval, TRUE, <<>>)
  /\ saved_eval = EvaluationProjet_init(EvalData(MaxArchScore, N_quote))
  /\ evaluation_file = TextFile(Dumped(model_dump(saved_eval)))

(***************************************************************************)
(* Properties of the scores.                                               *)
(***************************************************************************)
\* calculate_scores has returned
Scored == scores # PyNone

\* every section of the evaluation scored is filled at the level
ScoredAt(level) ==
  scored = LevelEvaluation([i \in 1..Len(EvaluationProjet) |-> level])

\* C22: for an evaluation whose fields lie in their ranges, calculate_scores
\* returns structure_score in 0..40, collaboration_score in 0..25,
\* documentation_score in 0..35, main_score their sum, in 0..100,
\* bonus_ml_score and bonus_tech_score in 0..5, total_bonus their sum, in
\* 0..10, final_score = main_score + total_bonus, in 0..110; with every
\* field at its upper bound each score is at its maximum; and percentage is
\* 0 when main_score is 0.
C22_ScoresInRange ==
  Scored =>
    /\ scores.structure_score \in 0..40
    /\ scores.collaboration_score \in 0..25
    /\ scores.documentation_score \in 0..35
    /\ scores.main_score
         = scores.structure_score + scores.collaboration_score
           + scores.documentation_score
    /\ scores.main_score \in 0..100
    /\ scores.bonus_ml_score \in 0..5
    /\ scores.bonus_tech_score \in 0..5
    /\ scores.total_bonus = scores.bonus_ml_score + scores.bonus_tech_score
    /\ scores.total_bonus \in 0..10
    /\ scores.final_score = scores.main_score + scores.total_bonus
    /\ scores.final_score \in 0..110
    /\ ScoredAt("max") =>
         /\ scores.structure_score = 40
         /\ scores.collaboration_score = 25
         /\ scores.documentation_score = 35
         /\ scores.main_score = 100
         /\ scores.bonus_ml_score = 5
         /\ scores.bonus_tech_score = 5
         /\ scores.total_bonus = 10
         /\ scores.final_score = 110
    /\ scores.main_score = 0 => scores.percentage = PyInt(0)

\* the scores of the evaluation with every field at its upper bound
C22_Witness == Scored /\ ScoredAt("max") /\ scores.final_score = 110

(***************************************************************************)
(* Properties of the file statistics.                                      *)
(***************************************************************************)
\* what os.walk yields as a file: a path that is no directory, in a
\* directory that can be reached by listing
Walked ==
  {q \in DOMAIN fs :
     q # <<>> /\ ~IsDirKind(fs[q]) /\ Parent(q) \in WalkRoots(fs)}

\* the walked files whose directory get_file_stats does not skip
Visited == {q \in Walked : ~PyIn(N_git, PathStr(Parent(q)))}

\* the key of a file in file_types
Extension(q) ==
  IF Suffix(PathName(q)) = <<>> THEN NO_EXTENSION ELSE Suffix(PathName(q))

\* where the first byte that is no UTF-8 is in each content, 0 if nowhere
InvalidAt ==
  [c \in Contents |-> IF c.type = "raise" THEN 0 ELSE FirstInvalid(c.b)]

\* the file cannot be read as UTF-8 text: open() fails or some byte,
\* wherever in the file, is no UTF-8
Unreadable(q) ==
  \/ fs[q] # "file"
  \/ content[q].type = "raise"
  \/ InvalidAt[content[q]] > 0

\* the lines of the readable contents: "a\nb" has 2, "a\r\nb\rc\n" has 3
LinesIn(q) ==
  IF Unreadable(q) THEN 0
  ELSE CASE content[q].b = <<97, 10, 98>> -> 2
         [] content[q].b = <<97, 13, 10, 98, 13, 99, 10>> -> 3
         [] OTHER -> 0

RECURSIVE SumLinesIn(_)
SumLinesIn(files) ==
  IF files = {} THEN 0
  ELSE LET q == CHOOSE x \in files : TRUE
       IN LinesIn(q) + SumLinesIn(files \ {q})

\* C23: get_file_stats returns its FileStats whatever the files hold; a
\* file that cannot be read as UTF-8 text, wherever the bad byte is, counts
\* once in total_files and under its extension in file_types like any
\* other file and adds nothing to total_lines, which is the number of lines
\* of the readable files; total_files is the sum of the file_types counts.
C23_UnreadableCountedWithoutLines ==
  file_stats # PyNone =>
    /\ file_stats.type = "FileStats"
    /\ file_stats.total_files = Cardinality(Visited)
    /\ DOMAIN file_stats.file_types = {Extension(q) : q \in Visited}
    /\ \A e \in DOMAIN file_stats.file_types :
         file_stats.file_types[e]
           = Cardinality({q \in Visited : Extension(q) = e})
    /\ file_stats.total_lines = SumLinesIn(Visited)
    /\ file_stats.total_files = SumValues(file_stats.file_types)

\* a.py holds more than CHUNK_SIZE bytes of lines and then a byte that is
\* no UTF-8, .gitignore two lines: two files, one of them .py, two lines
C23_Witness ==
  /\ file_stats # PyNone
  /\ fs = RepoFS
  /\ InvalidAt[content[<<N_a_py>>]] > CHUNK_SIZE
  /\ content[<<N_gitignore>>] = PyBytes(<<97, 10, 98>>)
  /\ file_stats.total_files = 2
  /\ file_stats.file_types[<<46, 112, 121>>] = 1
  /\ file_stats.total_lines = 2

\* the file is inside the .git directory of the repository
InsideGit(q) == q[1] = N_git

\* C30 (as claimed): get_file_stats counts in total_files every file of
\* the work tree that is not inside the .git directory, those of .github
\* too, and no file inside .git.
C30_SkipsExactlyGitDir ==
  file_stats # PyNone =>
    file_stats.total_files = Cardinality({q \in Walked : ~InsideGit(q)})

(***************************************************************************)
(* Properties of the repos file.                                           *)
(***************************************************************************)
\* a line that is neither blank nor a comment: its first character that is
\* no white space is not "#"
IsRepoLine(line) == Strip(line) # <<>> /\ Strip(line)[1] # 35

\* the lines of the file that are neither blank nor comments, stripped
RECURSIVE RepoLinesOf(_, _)
RepoLinesOf(lines, i) ==
  IF i > Len(lines) THEN <<>>
  ELSE (IF IsRepoLine(lines[i]) THEN <<Strip(lines[i])>> ELSE <<>>)
       \o RepoLinesOf(lines, i + 1)

\* C24 (as claimed): the mapping read_repos_file returns has one entry for
\* each line that is neither blank nor a comment line (first character
\* that is no white space "#"), in their order, holding the stripped line,
\* and none for the other lines; its keys are pairwise distinct.
C24_OneEntryPerRepoLine ==
  repos # PyNone /\ repos_file # PyNone =>
    /\ repos.type = "dict"
    /\ [k \in DOMAIN repos.items |-> repos.items[k][2].s]
         = RepoLinesOf(repos_file.lines, 1)
    /\ \A j, k \in DOMAIN repos.items :
         j # k => repos.items[j][1] # repos.items[k][1]

(***************************************************************************)
(* Properties of the commit history, normal windows.                       *)
(***************************************************************************)
\* C25: with start_date <= end_date the loop never stops early: no commit
\* is earlier than start_date and later than end_date, and the returned
\* list has one entry, in order, for every commit of the source, whatever
\* the window and the timestamps.
C25_NormalWindowNeverStops ==
  /\ cpc \in {"loop", "done"} /\ start_date <= end_date =>
       \A i \in DOMAIN commits :
         commits[i].date = iter_commits[i].committed_datetime
  /\ cpc = "done" /\ start_date <= end_date =>
       Len(commits) = Len(iter_commits)

\* a normal window over a log of at least three commits, with a commit
\* older than the window and a commit newer than it among those returned
C25_Witness ==
  /\ cpc = "done"
  /\ start_date <= end_date
  /\ Len(iter_commits) >= 3
  /\ Len(commits) = Len(iter_commits)
  /\ \E i, j \in DOMAIN commits :
       commits[i].date < start_date /\ commits[j].date > end_date

(***************************************************************************)
(* The two tree builders side by side.                                     *)
(***************************************************************************)
\* C26 (as claimed): for every directory tree, max_depth and pattern list,
\* patterns that match the path of the root included, get_file_structure
\* of RepoStats and of FileStructureAnalyzer return the same mapping: what
\* the one has returned is what the other returns for the same arguments.
C26_BuildersAgree ==
  pc = "done" =>
    /\ caller = "FileStructureAnalyzer" =>
         tree = RepoStats_get_file_structure(fs, max_depth, exclude_patterns)
    /\ caller \in {"RepoStats", "app"} =>
         tree = get_file_structure(fs, max_depth, exclude_patterns)

(***************************************************************************)
(* Properties of the evaluation tab.                                       *)
(***************************************************************************)
\* a run of the tab has ended that did not write the file
RanWithoutSave == event \in {"open", "edit", "rerun"}

\* C27 (as claimed): when the evaluation file exists and does not load, the
\* run shows the warning "Evaluation file is invalid" with the message of
\* load_evaluation; it shows "No evaluation file found" only when there is
\* no file.
C27_InvalidFileBranch ==
  RanWithoutSave =>
    /\ evaluation_file # PyNone /\ ~loaded.is_valid =>
         status = "warning" /\ loaded.error_message # <<>>
    /\ status = "info" => evaluation_file = PyNone

\* a step in which the form was submitted while show_eval_form was set by
\* the Edit button
SubmitAfterEdit ==
  /\ event' = "submit"
  /\ show_eval_form = PyBool(TRUE)
  /\ saved_eval' # saved_eval \/ saved' # saved
       \/ evaluation_file' # evaluation_file

\* C28 (as claimed): after Edit was pressed and the form is submitted,
\* show_eval_form is False afterwards if and only if save_evaluation
\* returned True.
C28_ResetOnlyAfterSuccess ==
  [][SubmitAfterEdit =>
       (show_eval_form' = PyBool(FALSE) <=> saved' = PyBool(TRUE))]_vars

(***************************************************************************)
(* Names in the outline.                                                   *)
(***************************************************************************)
\* C29 (as claimed): in the outline the line of every entry of the tree
\* contains the name of the entry (its key), whether the entry is a file, a
\* directory, a truncated entry or a directory that could not be listed.
C29_LineHoldsName ==
  Rendered =>
    \A p \in IndexPaths(tree.items, <<>>) :
      Contains(tree_view.items[LineOf(tree.items, p)],
               EntryKey(tree.items, p))
====
